---- MODULE Spec2Model ----
(***************************************************************************)
(* Model of the configuration subsystem of python_utils:                   *)
(*   tools/helpers/utils/utils.py            merge_dict_preprocessing      *)
(*   tools/helpers/config_manager/config_dict.py    SectionDict, ConfigDict*)
(*   tools/helpers/config_manager/config_models.py  _Config / Config       *)
(*                                                                         *)
(* A SectionDict is a function from stored keys to values, a ConfigDict a  *)
(* record of its section map and its two section pointers, and a _Config   *)
(* a record of its attributes.  Every method is an operator from the       *)
(* object before the call to the object after it and the method's outcome  *)
(* (a returned value or the exception that left the method).               *)
(***************************************************************************)
EXTENDS Integers, Sequences, FiniteSets, TLC

(***************************************************************************)
(* Bounds and value universe.                                              *)
(***************************************************************************)
\* init() may be called this many times (init_count is capped by the guard).
MaxInitCount == 2

\* Python's None, as a section pointer, a path or a returned value.
None == "None"

\* Typed values are written as tagged strings: "i1" is the integer 1 and
\* "s7" the string '7' (what configparser returns for a value read from disk).
WrittenValue == "i9"
TempValue == "i8"
DefaultArg == "i0"

\* Keys as callers write them, and the stored form to_key gives each.
Keys == {"a", "b"}
RawKeys == {"a", "b", "A", "z"}

\* Section names as callers write them.
SecNames == {"default", "s1", "x"}
RawSections == {"default", "s1", "x", " s1"}

\* The section configparser always yields (configparser.DEFAULTSECT).
ParserDefaultSection == "DEFAULT"

\* The join modes of merge_dict_preprocessing, and a mode it does not know.
Hows == {"left", "inner", "right_anti", "right", "outer", "append", "none", "clear"}
BadHow == "bad_string"

EmptyDict == [k \in {} |-> None]

\* An optional boolean argument: None takes the attribute, else "True"/"False".
Opt(arg, attr) == IF arg = None THEN attr ELSE arg = "True"

\* The outcome of a method: it returned val, or exception exc left it.
Ret(v) == [exc |-> "", val |-> v]
Raise(e) == [exc |-> e, val |-> None]

(***************************************************************************)
(* config_dict.py: key normalisation.                                      *)
(***************************************************************************)
\* str(obj).lower().strip()
to_key(obj) ==
    CASE obj = "A" -> "a"
      [] OTHER -> obj

\* str(obj).strip(): case sensitive
to_section(obj) ==
    CASE obj = " s1" -> "s1"
      [] OTHER -> obj

\* A preprocessing whose 'right' / 'replace' keeps the left dictionary
merge_dict_preprocessing_right_updates(left_keys, right_keys, how) ==
    CASE how = "left" -> [keys |-> left_keys \cap right_keys, update |-> TRUE, ok |-> TRUE]
      [] how = "inner" -> [keys |-> left_keys \cap right_keys, update |-> FALSE, ok |-> TRUE]
      [] how \in {"rightanti", "right_anti"} ->
            [keys |-> right_keys \ left_keys, update |-> FALSE, ok |-> TRUE]
      [] how \in {"right", "replace", "outer", "update"} ->
            [keys |-> right_keys, update |-> TRUE, ok |-> TRUE]
      [] how = "append" -> [keys |-> right_keys \ left_keys, update |-> TRUE, ok |-> TRUE]
      [] how \in {"none", None} -> [keys |-> {}, update |-> TRUE, ok |-> TRUE]
      [] how = "clear" -> [keys |-> {}, update |-> FALSE, ok |-> TRUE]
      [] OTHER -> [keys |-> {}, update |-> FALSE, ok |-> FALSE]

\* A preprocessing whose 'outer' / 'update' takes only the keys the left
\* dictionary lacks and drops the rest of it
merge_dict_preprocessing_outer_anti(left_keys, right_keys, how) ==
    CASE how = "left" -> [keys |-> left_keys \cap right_keys, update |-> TRUE, ok |-> TRUE]
      [] how = "inner" -> [keys |-> left_keys \cap right_keys, update |-> FALSE, ok |-> TRUE]
      [] how \in {"rightanti", "right_anti", "outer", "update"} ->
            [keys |-> right_keys \ left_keys, update |-> FALSE, ok |-> TRUE]
      [] how \in {"right", "replace"} -> [keys |-> right_keys, update |-> FALSE, ok |-> TRUE]
      [] how = "append" -> [keys |-> right_keys \ left_keys, update |-> TRUE, ok |-> TRUE]
      [] how \in {"none", None} -> [keys |-> {}, update |-> TRUE, ok |-> TRUE]
      [] how = "clear" -> [keys |-> {}, update |-> FALSE, ok |-> TRUE]
      [] OTHER -> [keys |-> {}, update |-> FALSE, ok |-> FALSE]

(***************************************************************************)
(* utils.py: merge_dict_preprocessing.  keys = None stands for the         *)
(* (None, None) returned for an unknown join mode.                         *)
(***************************************************************************)
merge_dict_preprocessing(left_keys, right_keys, how) ==
    CASE how = "left" -> [keys |-> left_keys \cap right_keys, update |-> TRUE, ok |-> TRUE]
      [] how = "inner" -> [keys |-> left_keys \cap right_keys, update |-> FALSE, ok |-> TRUE]
      [] how \in {"rightanti", "right_anti"} ->
            [keys |-> right_keys \ left_keys, update |-> FALSE, ok |-> TRUE]
      [] how \in {"right", "replace"} -> [keys |-> right_keys, update |-> FALSE, ok |-> TRUE]
      [] how \in {"outer", "update"} -> [keys |-> right_keys, update |-> TRUE, ok |-> TRUE]
      [] how = "append" -> [keys |-> right_keys \ left_keys, update |-> TRUE, ok |-> TRUE]
      [] how \in {"none", None} -> [keys |-> {}, update |-> TRUE, ok |-> TRUE]
      [] how = "clear" -> [keys |-> {}, update |-> FALSE, ok |-> TRUE]
      [] OTHER -> [keys |-> {}, update |-> FALSE, ok |-> FALSE]

(***************************************************************************)
(* config_dict.py: SectionDict.                                            *)
(***************************************************************************)
\* _check_allowed_value_type: None passes (forbid_none_value is False), a
\* value of a type outside _ALLOWED_TYPES does not.
BadTypeValue == "set()"
SectionDict_check_allowed_value_type(value) == value # BadTypeValue

\* _new on a dict: keys are normalised, pairs with a value of a forbidden
\* type are dropped.  dico is a function from raw keys to values; when two
\* raw keys normalise to the same key the first one met is kept, "a" being
\* met before "A" here.
SectionDict_new(dico) ==
    LET ok == {k \in DOMAIN dico : SectionDict_check_allowed_value_type(dico[k])}
        nks == {to_key(k) : k \in ok}
        first(nk) == IF nk \in ok THEN nk ELSE CHOOSE k \in ok : to_key(k) = nk
    IN  [nk \in nks |-> dico[first(nk)]]

\* config_conversion.py, the 'auto' flag: ast.literal_eval of a string, the
\* value itself when it is no string or no literal.  StrOfSet is the string
\* '{1, 2}', whose evaluation is a set.
StrOfSet == "s{1, 2}"
single_item_conversion(item) ==
    CASE item = "s7" -> "i7"
      [] item = "s6" -> "i6"
      [] item = StrOfSet -> BadTypeValue
      [] OTHER -> item

\* convert_dict_from_str(o_dict, no_flag='auto-conversion', inplace=True) on
\* keys that carry no flag
convert_dict_from_str(dico) == [k \in DOMAIN dico |-> single_item_conversion(dico[k])]

\* SectionDict(dico, auto_cast): _new checks the types of the values as given
\* and, with auto_cast, converts them afterwards
SectionDict_init(dico, auto_cast) ==
    IF auto_cast THEN convert_dict_from_str(SectionDict_new(dico)) ELSE SectionDict_new(dico)

\* dict.update
DictUpdate(d, o) ==
    [k \in DOMAIN d \cup DOMAIN o |-> IF k \in DOMAIN o THEN o[k] ELSE d[k]]

\* _build: o_dict = _new(dico); if not update: clear(); _cfg.update(o_dict)
SectionDict_build(self, dico, update) ==
    LET o_dict == SectionDict_new(dico)
    IN  IF update THEN DictUpdate(self, o_dict) ELSE o_dict

\* __getitem__: self._cfg[to_key(item)]
SectionDict_getitem(self, item) ==
    IF to_key(item) \in DOMAIN self THEN Ret(self[to_key(item)]) ELSE Raise("KeyError")

\* __setitem__ (policy 'setitem' is True): _build({key: value}, update=True)
SectionDict_setitem(self, key, value) ==
    SectionDict_build(self, [k \in {key} |-> value], TRUE)

\* clear (policy 'clear' is True): _build(None, update=False)
SectionDict_clear(self) == EmptyDict

\* _merge_dict: the keys to take from right_dict and whether left_dict is
\* kept come from merge_dict_preprocessing; an unknown mode makes the
\* iteration over keys = None raise TypeError and leaves left_dict alone.
SectionDict_merge_dict(left_dict, right_dict, how) ==
    LET p == merge_dict_preprocessing(DOMAIN left_dict, DOMAIN right_dict, how)
    IN  IF ~p.ok THEN [sd |-> left_dict, exc |-> "TypeError"]
        ELSE [sd |-> SectionDict_build(left_dict, [k \in p.keys |-> right_dict[k]], p.update),
              exc |-> ""]

\* merge(section_dict, how, inplace=True)
SectionDict_merge(self, section_dict, how) ==
    SectionDict_merge_dict(self, section_dict, how)

\* setdefault(k, default): merge({to_key(k): default}, how='append'), then
\* self[k], a KeyError when the pair was not taken
SectionDict_setdefault(self, k, default) ==
    LET sd == SectionDict_merge(self, [j \in {to_key(k)} |-> default], "append").sd
    IN  [sd |-> sd, exc |-> IF to_key(k) \in DOMAIN sd THEN "" ELSE "KeyError"]

(***************************************************************************)
(* config_dict.py: ConfigDict, a record                                    *)
(*   cfg: section name -> SectionDict, section, default_section.           *)
(***************************************************************************)
\* __init__ without dico
ConfigDict_empty == [cfg |-> EmptyDict, section |-> None, default_section |-> None]

\* _format_config_dict: every section name goes through to_section and every
\* body through SectionDict(...)
ConfigDict_format_config_dict(dico) ==
    LET names == {to_section(k) : k \in DOMAIN dico}
        raw(n) == IF n \in DOMAIN dico THEN n ELSE CHOOSE k \in DOMAIN dico : to_section(k) = n
    IN  [n \in names |-> SectionDict_new(dico[raw(n)])]

\* ConfigDict(dico): both pointers start as None (_WILDCARD leaves them)
ConfigDict_init(dico) ==
    [cfg |-> ConfigDict_format_config_dict(dico), section |-> None, default_section |-> None]

\* sections(): the names, as __iter__ yields them
ConfigDict_sections(self) == DOMAIN self.cfg

\* add_section(section, section_dict=None, exist_ok=False, set_section=False)
ConfigDict_add_section(self, section, section_dict) ==
    LET name == IF section = None THEN None ELSE to_section(section)
    IN  IF name \in DOMAIN self.cfg THEN self
        ELSE [self EXCEPT !.cfg = DictUpdate(@, [n \in {name} |-> SectionDict_new(section_dict)])]

\* add_section(section, section_dict, auto_cast)
ConfigDict_add_section_auto_cast(self, section, section_dict, auto_cast) ==
    LET name == IF section = None THEN None ELSE to_section(section)
    IN  IF name \in DOMAIN self.cfg THEN self
        ELSE [self EXCEPT !.cfg = DictUpdate(@, [n \in {name} |->
                                                    SectionDict_init(section_dict, auto_cast)])]

\* default_section setter: a missing section is created, then the pointer set
ConfigDict_set_default_section_attr(self, name) ==
    LET n == IF name = None THEN None ELSE to_section(name)
        created == IF n \notin DOMAIN self.cfg /\ n # None
                   THEN ConfigDict_add_section(self, n, EmptyDict) ELSE self
    IN  [created EXCEPT !.default_section = n]

\* A section setter that creates the missing section as the default_section
\* setter does
ConfigDict_set_section_attr_creates(self, name) ==
    LET n == IF name = None THEN None ELSE to_section(name)
        created == IF n \notin DOMAIN self.cfg /\ n # None
                   THEN ConfigDict_add_section(self, n, EmptyDict) ELSE self
    IN  [created EXCEPT !.section = n]

\* section setter: a missing section is refused, the pointer keeps its value
ConfigDict_set_section_attr(self, name) ==
    LET n == IF name = None THEN None ELSE to_section(name)
    IN  IF n \notin DOMAIN self.cfg /\ n # None THEN self
        ELSE [self EXCEPT !.section = n]

\* set_section(section, add_section)
ConfigDict_set_section(self, section, add_section) ==
    LET n == IF section = None THEN None ELSE to_section(section)
        added == IF n # None /\ n \notin DOMAIN self.cfg /\ add_section
                 THEN ConfigDict_add_section(self, n, EmptyDict) ELSE self
    IN  IF n \in DOMAIN added.cfg \/ n = None
        THEN [added EXCEPT !.section = n] ELSE added

\* get_section(section, set_section=False): the name looked up (None stands
\* for the default section) and whether a SectionDict is returned for it
ConfigDict_get_section_name(self, section) ==
    IF section = None THEN self.default_section ELSE to_section(section)

ConfigDict_has_section(self, section) ==
    ConfigDict_get_section_name(self, section) \in DOMAIN self.cfg

ConfigDict_get_section(self, section) ==
    self.cfg[ConfigDict_get_section_name(self, section)]

\* clear(section=None): one section is emptied, or every section is removed;
\* neither pointer is touched
ConfigDict_clear(self, section) ==
    IF section \in DOMAIN self.cfg
    THEN [self EXCEPT !.cfg[section] = SectionDict_clear(@)]
    ELSE IF section = None THEN [self EXCEPT !.cfg = EmptyDict]
    ELSE self

\* __getitem__: the current section, then the default section.  A pointer
\* that names no section makes self._cfg[pointer] raise KeyError itself.
ConfigDict_getitem(self, item) ==
    LET key == to_key(item)
    IN  IF self.section # None
        THEN IF self.section \notin DOMAIN self.cfg THEN Raise("KeyError")
             ELSE IF key \in DOMAIN self.cfg[self.section]
                  THEN Ret(self.cfg[self.section][key])
             ELSE IF self.default_section # None
                  THEN IF self.default_section \notin DOMAIN self.cfg THEN Raise("KeyError")
                       ELSE IF key \in DOMAIN self.cfg[self.default_section]
                            THEN Ret(self.cfg[self.default_section][key])
                       ELSE Raise("KeyError")
             ELSE Raise("KeyError")
        ELSE IF self.default_section # None
             THEN IF self.default_section \notin DOMAIN self.cfg THEN Raise("KeyError")
                  ELSE IF key \in DOMAIN self.cfg[self.default_section]
                       THEN Ret(self.cfg[self.default_section][key])
                  ELSE Raise("KeyError")
        ELSE Raise("KeyError")

\* __setitem__: the key goes through to_section (stripped, case kept) before
\* the membership tests, and through to_key when the SectionDict stores it
ConfigDict_setitem(self, key0, value) ==
    LET key == to_section(key0)
        sec == self.section
        dsec == self.default_section
        put(s) == [cd |-> [self EXCEPT !.cfg[s] = SectionDict_setitem(@, key, value)], exc |-> ""]
        fail == [cd |-> self, exc |-> "KeyError"]
    IN  IF sec # None /\ sec \notin DOMAIN self.cfg THEN fail
        ELSE IF sec # None /\ key \in DOMAIN self.cfg[sec] THEN put(sec)
        ELSE IF dsec # None /\ dsec \notin DOMAIN self.cfg THEN fail
        ELSE IF dsec # None /\ key \in DOMAIN self.cfg[dsec] THEN put(dsec)
        ELSE IF sec # None THEN put(sec)
        ELSE IF dsec # None THEN put(dsec)
        ELSE [cd |-> self, exc |-> ""]

\* merge_config_dict: the section names to take from right_dict come from
\* merge_dict_preprocessing applied to the section names; left_dict is cleared
\* first when update is false (also when it is the None of an unknown mode,
\* before the loop over keys = None raises TypeError); then each name is merged
\* with how_section if left_dict (as it is now) has it, and added otherwise.
ConfigDict_merge_config_dict(left_dict, right_dict, how, how_section0) ==
    LET how_section == IF how_section0 = None THEN how ELSE how_section0
        p == merge_dict_preprocessing(DOMAIN left_dict.cfg, DOMAIN right_dict.cfg, how)
        base == IF p.update THEN left_dict.cfg ELSE EmptyDict
        merged(k) == SectionDict_merge(base[k], right_dict.cfg[k], how_section)
        failing == {k \in p.keys \cap DOMAIN base : merged(k).exc # ""}
        sec(k) == IF k \in p.keys
                  THEN IF k \in DOMAIN base THEN merged(k).sd
                       ELSE SectionDict_new(right_dict.cfg[k])
                  ELSE base[k]
    IN  IF ~p.ok THEN [cd |-> [left_dict EXCEPT !.cfg = EmptyDict], exc |-> "TypeError"]
        ELSE IF failing # {} THEN [cd |-> [left_dict EXCEPT !.cfg = base], exc |-> "TypeError"]
        ELSE [cd |-> [left_dict EXCEPT !.cfg = [k \in DOMAIN base \cup p.keys |-> sec(k)]],
              exc |-> ""]

\* merge_config_dict when the merge of a section raises (an unknown
\* how_section): the loop over the names stops at the first section that
\* left_dict already has, and the names it met before that one are added.
\* Their order is the iteration order of keys, so every set of new names is a
\* possible outcome; ConfigDict_merge_config_dict is the one where the loop
\* met an existing section first.
ConfigDict_merge_config_dict_outcomes(left_dict, right_dict, how, how_section0) ==
    LET how_section == IF how_section0 = None THEN how ELSE how_section0
        p == merge_dict_preprocessing(DOMAIN left_dict.cfg, DOMAIN right_dict.cfg, how)
        base == IF p.update THEN left_dict.cfg ELSE EmptyDict
        failing == {k \in p.keys \cap DOMAIN base :
                        SectionDict_merge(base[k], right_dict.cfg[k], how_section).exc # ""}
        stopped(before) ==
            [cd |-> [left_dict EXCEPT !.cfg =
                        [k \in DOMAIN base \cup before |->
                            IF k \in DOMAIN base THEN base[k]
                            ELSE SectionDict_new(right_dict.cfg[k])]],
             exc |-> "TypeError"]
    IN  IF ~p.ok \/ failing = {}
        THEN {ConfigDict_merge_config_dict(left_dict, right_dict, how, how_section0)}
        ELSE {stopped(before) : before \in SUBSET (p.keys \ DOMAIN base)}

\* merge(config_dict, how, how_section, inplace=True): config_dict is turned
\* into a ConfigDict first when it is a plain two-level mapping
ConfigDict_merge(self, config_dict, how, how_section) ==
    ConfigDict_merge_config_dict(self, config_dict, how, how_section)

\* config setter: merge(config_dict, how='right', inplace=True)
ConfigDict_set_config(self, config_dict) ==
    ConfigDict_merge(self, config_dict, "right", None)

(***************************************************************************)
(* Files.  A path is a file name or None; the disk gives each name no file,*)
(* a file configparser cannot parse, or the sections of an INI file.       *)
(***************************************************************************)
Paths == {"good.ini", "empty.ini", "bad.ini", "missing.ini"}

NoFile == [kind |-> "absent", data |-> EmptyDict]
BadFile == [kind |-> "unparsable", data |-> EmptyDict]
IniFile(data) == [kind |-> "ini", data |-> data]

\* str(value), as to_str writes a value into the file
ToStr(v) ==
    CASE v = "i1" -> "s1" [] v = "i2" -> "s2" [] v = "i3" -> "s3" [] v = "i4" -> "s4"
      [] v = "i8" -> "s8" [] v = "i9" -> "s9" [] v = "i0" -> "s0"
      [] OTHER -> v

\* Path.isfile (os.path.isfile; false for Path(None))
isfile(disk0, path0) == path0 # None /\ disk0[path0].kind # "absent"

\* open_file(path, ask_path=..., behavior_on_cancellation='ignore'): a dialog
\* opens unless path is None and ask_path is off, or path is a file; picked
\* is what the user answers in it (a file, or None when it is cancelled).
open_file(disk0, path0, ask_path, picked) ==
    IF path0 = None /\ ~ask_path THEN None
    ELSE IF ~isfile(disk0, path0) THEN picked
    ELSE path0

\* save_file(path, overwrite=True, ...): the save dialog opens for Path(None)
save_file(path0, picked) == IF path0 = None THEN picked ELSE path0

(***************************************************************************)
(* config_models.py: _Config, a record of its attributes.                  *)
(***************************************************************************)
\* __init__ without arguments
Config_new ==
    [cfg |-> ConfigDict_empty, default_config |-> ConfigDict_empty,
     temp_config |-> EmptyDict, path |-> None, default_path |-> None,
     force_load |-> FALSE, load_empty |-> FALSE, ask_path |-> FALSE,
     search_in_default_config |-> FALSE, init_count |-> 0]

\* read_config: None when configparser fails (the anomaly is a warning), else
\* ConfigDict(config_parser), which always has configparser's DEFAULT section
read_config(disk0, path0) ==
    IF disk0[path0].kind = "unparsable" THEN [ok |-> FALSE, cd |-> ConfigDict_empty]
    ELSE [ok |-> TRUE,
          cd |-> ConfigDict_init(DictUpdate([n \in {ParserDefaultSection} |-> EmptyDict],
                                            disk0[path0].data))]

\* merge(config_dict, how, how_section, inplace=True)
Config_merge(self, config_dict, how, how_section) ==
    LET merged(r) == [self |-> [self EXCEPT !.cfg = r.cd], exc |-> r.exc]
    IN  merged(ConfigDict_merge(self.cfg, config_dict, how, how_section))

\* merge(config_dict, how, how_section, inplace=True), every outcome
Config_merge_outcomes(self, config_dict, how, how_section) ==
    {[self |-> [self EXCEPT !.cfg = r.cd], exc |-> r.exc] :
        r \in ConfigDict_merge_config_dict_outcomes(self.cfg, config_dict, how, how_section)}

\* What the section map holds when a value that is no SectionDict is put in
\* it: the bare value, written here as a mapping of the one key "<value>"
BareEntry(value) == [k \in {"<value>"} |-> value]
IsSectionDict(entry) == "<value>" \notin DOMAIN entry

\* to_str / write_config: every section with str() of its values
write_config(config_dict) ==
    IniFile([n \in DOMAIN config_dict.cfg |->
                [k \in DOMAIN config_dict.cfg[n] |-> ToStr(config_dict.cfg[n][k])]])

\* save_config(overwrite=True, backup=...): the output path is path, or
\* default_path when path is None; nothing is written for Path(None)
Config_save_config(self, disk0, picked) ==
    LET out == IF self.path = None THEN self.default_path ELSE self.path
        path0 == save_file(out, picked)
    IN  IF path0 = None THEN [self |-> self, disk |-> disk0]
        ELSE [self |-> [self EXCEPT !.path = path0],
              disk |-> [disk0 EXCEPT ![path0] = write_config(self.cfg)]]

\* save_config(path, overwrite=True): as save_config, to the path given
\* unless it is None.  write_config opens the file before it builds the text,
\* and to_str raises AttributeError on an entry that is no SectionDict: the
\* file is left empty and path is not set.
Config_save_config_path(self, disk0, path_arg, picked) ==
    LET out == IF path_arg # None THEN path_arg
               ELSE IF self.path = None THEN self.default_path ELSE self.path
        written(path0) ==
            IF path0 = None THEN [self |-> self, disk |-> disk0]
            ELSE IF \E n \in DOMAIN self.cfg.cfg : ~IsSectionDict(self.cfg.cfg[n])
            THEN [self |-> self, disk |-> [disk0 EXCEPT ![path0] = IniFile(EmptyDict)]]
            ELSE [self |-> [self EXCEPT !.path = path0],
                  disk |-> [disk0 EXCEPT ![path0] = write_config(self.cfg)]]
    IN  written(save_file(out, picked))

\* CONFIG.default_path = value: the setter logs an error and assigns nothing
Config_set_default_path(self, value) == self

\* CONFIG.path = path: the setter keeps what open_file returns
Config_set_path(self, disk0, path_arg, picked) ==
    [self EXCEPT !.path = open_file(disk0, path_arg, self.ask_path, picked)]

\* edit(attr=value): path is set through its setter, force_load as the private
\* attribute; a name that is in neither list of editable attributes, such as
\* default_path, is left alone
Config_edit(self, disk0, attr, value, picked) ==
    IF attr = "path" THEN Config_set_path(self, disk0, value, picked)
    ELSE IF attr = "force_load" THEN [self EXCEPT !.force_load = value]
    ELSE self

\* reload_default(write, backup, how, how_section=None, sections=None)
Config_reload_default(self, disk0, write, how, picked) ==
    LET saved(w) == [self |-> w.self, disk |-> w.disk, exc |-> ""]
        merged(m) ==
            IF m.exc # "" THEN [self |-> m.self, disk |-> disk0, exc |-> m.exc]
            ELSE IF write THEN saved(Config_save_config(m.self, disk0, picked))
            ELSE [self |-> m.self, disk |-> disk0, exc |-> ""]
    IN  merged(Config_merge([self EXCEPT !.path = self.default_path],
                            self.default_config, how, None))

\* load that records the path before it has checked that the path is a file
Config_load_path_first(self, disk0, path_arg, force_load_arg, load_empty_arg, merge_how, picked) ==
    LET path0 == IF path_arg = None THEN self.path ELSE path_arg
        force == Opt(force_load_arg, self.force_load)
        moved == [self EXCEPT !.path = path0]
        merged(m) == [self |-> m.self, disk |-> disk0, exc |-> m.exc]
        read(rd) ==
            IF ~rd.ok
            THEN IF force THEN Config_reload_default(moved, disk0, TRUE, "right", picked)
                 ELSE [self |-> moved, disk |-> disk0, exc |-> ""]
            ELSE merged(Config_merge(moved, rd.cd, merge_how, None))
    IN  IF ~isfile(disk0, path0)
        THEN IF force THEN Config_reload_default(moved, disk0, TRUE, "right", picked)
             ELSE [self |-> moved, disk |-> disk0, exc |-> ""]
        ELSE read(read_config(disk0, path0))

\* load(path, force_load, load_empty, merge_how).  The branch on
\* config_dict.isempty follows "elif path.isfile", which is true whenever
\* read_config was reached, so it is never taken.
Config_load(self, disk0, path_arg, force_load_arg, load_empty_arg, merge_how, picked) ==
    LET path0 == IF path_arg = None THEN self.path ELSE path_arg
        force == Opt(force_load_arg, self.force_load)
        merged(m) == [self |-> m.self, disk |-> disk0, exc |-> m.exc]
        read(rd) ==
            IF ~rd.ok
            THEN IF force THEN Config_reload_default(self, disk0, TRUE, "right", picked)
                 ELSE [self |-> self, disk |-> disk0, exc |-> ""]
            ELSE merged(Config_merge([self EXCEPT !.path = path0], rd.cd, merge_how, None))
    IN  IF ~isfile(disk0, path0)
        THEN IF force THEN Config_reload_default(self, disk0, TRUE, "right", picked)
             ELSE [self |-> self, disk |-> disk0, exc |-> ""]
        ELSE read(read_config(disk0, path0))

\* add_default_config_sections that takes only the names of the sections of
\* the default config, not their bodies
Config_add_default_config_sections_empty(self, sections) ==
    Config_merge(self, [self.default_config EXCEPT
                            !.cfg = [n \in DOMAIN self.default_config.cfg |-> EmptyDict]],
                 "append", None).self

\* add_default_config_sections(sections): n_dico is the whole default config
\* whenever sections is given ("... if sections is None else dico"), merged
\* with how='append'
Config_add_default_config_sections(self, sections) ==
    Config_merge(self, self.default_config, "append", None).self

\* _check_section(section, search_in_default_config)
Config_check_section(self, section, search_arg) ==
    LET n == IF section = None THEN None ELSE to_section(section)
        search == Opt(search_arg, self.search_in_default_config)
    IN  IF n \notin DOMAIN self.cfg.cfg /\ n # None /\ search
        THEN Config_add_default_config_sections(self, n)
        ELSE self

\* get_section(section): the object after _check_section; the section is
\* then read with ConfigDict_has_section / ConfigDict_get_section
Config_get_section(self, section, search_arg) == Config_check_section(self, section, search_arg)

\* set_section(section, add_section=True, search_in_default_config=None)
Config_set_section(self, section, add_section, search_arg) ==
    LET c == Config_check_section(self, section, search_arg)
    IN  [c EXCEPT !.cfg = ConfigDict_set_section(@, section, add_section)]

\* load_config(section): set_section(section, search_in_default_config=True)
Config_load_config(self, section) == Config_set_section(self, section, TRUE, "True")

\* A __setitem__ on a live config that shares its sections with the default
\* config, as after an init() that would not copy the default config
Config_setitem_shared(self, key, value) ==
    LET r == ConfigDict_setitem(self.cfg, key, value)
    IN  [self |-> [self EXCEPT !.cfg = r.cd,
                               !.default_config.cfg =
                                    [n \in DOMAIN @ |-> IF n \in DOMAIN r.cd.cfg
                                                        THEN r.cd.cfg[n] ELSE @[n]]],
         exc |-> r.exc]

\* __setitem__
Config_setitem(self, key, value) ==
    LET r == ConfigDict_setitem(self.cfg, key, value)
    IN  [self |-> [self EXCEPT !.cfg = r.cd], exc |-> r.exc]

\* setdefault(k, default): ConfigDict has no setdefault of its own, so this is
\* BaseDict.setdefault: to_section(k) is given to setdefault of the section
\* map itself, which stores default under that name when it has no entry of
\* that name, and the result is self[k], the lookup of k as a key
Config_setdefault(self, k, default) ==
    LET name == to_section(k)
        stored == IF name \in DOMAIN self.cfg.cfg THEN self.cfg
                  ELSE [self.cfg EXCEPT !.cfg = DictUpdate(@, [n \in {name} |-> BareEntry(default)])]
    IN  [self |-> [self EXCEPT !.cfg = stored], out |-> ConfigDict_getitem(stored, name)]

\* __getitem__ without "self._cfg[item] = res": the value found in the default
\* config is returned but not set in the current config
Config_getitem_no_copy(self, item) ==
    LET cur == ConfigDict_getitem(self.cfg, item)
        dflt == ConfigDict_getitem(self.default_config, item)
    IN  IF item \in DOMAIN self.temp_config
        THEN [self |-> self, out |-> Ret(self.temp_config[item]), src |-> "temp"]
        ELSE IF cur.exc = "" THEN [self |-> self, out |-> cur, src |-> "config"]
        ELSE IF dflt.exc # "" THEN [self |-> self, out |-> Raise("KeyError"), src |-> ""]
        ELSE [self |-> self, out |-> dflt, src |-> "default"]

\* __getitem__: temp_config (the item as given), the current config, then
\* the default config, whose value is then set in the current config
Config_getitem(self, item) ==
    LET cur == ConfigDict_getitem(self.cfg, item)
        dflt == ConfigDict_getitem(self.default_config, item)
        set == Config_setitem(self, item, dflt.val)
    IN  IF item \in DOMAIN self.temp_config
        THEN [self |-> self, out |-> Ret(self.temp_config[item]), src |-> "temp"]
        ELSE IF cur.exc = "" THEN [self |-> self, out |-> cur, src |-> "config"]
        ELSE IF dflt.exc # "" THEN [self |-> self, out |-> Raise("KeyError"), src |-> ""]
        ELSE IF set.exc # "" THEN [self |-> self, out |-> Raise("KeyError"), src |-> ""]
        ELSE [self |-> set.self, out |-> dflt, src |-> "default"]

\* get(item, default=None)
Config_get(self, item, default) ==
    LET r == Config_getitem(self, item)
    IN  IF r.out.exc = "KeyError" THEN [r EXCEPT !.out = Ret(default)] ELSE r

\* __call__(section, key[, default]); CONFIG(key) passes self.default_section
\* as section.  has_default tells whether a default was supplied.  Each
\* "key in <section>" compares the key as given with the stored keys, and
\* raises TypeError when get_section returned None.
Config_call(self, section, key, has_default, default) ==
    LET in_default(s2, dc, dsec) ==
            IF ~ConfigDict_has_section(dc, section)
            THEN [self |-> s2, out |-> Raise("TypeError")]
            ELSE IF key \in DOMAIN ConfigDict_get_section(dc, section)
                    /\ s2.search_in_default_config
            THEN [self |-> s2, out |-> Ret(ConfigDict_get_section(dc, section)[to_key(key)])]
            ELSE IF ~ConfigDict_has_section(dc, dsec)
            THEN [self |-> s2, out |-> Raise("TypeError")]
            ELSE IF key \in DOMAIN ConfigDict_get_section(dc, dsec)
                    /\ s2.search_in_default_config
            THEN [self |-> s2,
                  out |-> IF ~ConfigDict_has_section(dc, dc.default_section)
                          THEN Raise("TypeError")
                          ELSE IF to_key(key) \in
                                    DOMAIN ConfigDict_get_section(dc, dc.default_section)
                          THEN Ret(ConfigDict_get_section(dc, dc.default_section)[to_key(key)])
                          ELSE Raise("KeyError")]
            ELSE IF has_default THEN [self |-> s2, out |-> Ret(default)]
            ELSE [self |-> s2, out |-> Raise("KeyError")]
        in_live_default(s2, dsec) ==
            IF ~ConfigDict_has_section(s2.cfg, dsec)
            THEN [self |-> s2, out |-> Raise("TypeError")]
            ELSE IF key \in DOMAIN ConfigDict_get_section(s2.cfg, dsec)
            THEN [self |-> s2, out |-> Ret(ConfigDict_get_section(s2.cfg, dsec)[to_key(key)])]
            ELSE in_default(s2, s2.default_config, dsec)
        in_live(s1) ==
            IF ~ConfigDict_has_section(s1.cfg, section)
            THEN [self |-> s1, out |-> Raise("TypeError")]
            ELSE IF key \in DOMAIN ConfigDict_get_section(s1.cfg, section)
            THEN [self |-> s1, out |-> Ret(ConfigDict_get_section(s1.cfg, section)[to_key(key)])]
            ELSE in_live_default(Config_get_section(s1, s1.cfg.default_section, None),
                                 s1.cfg.default_section)
    IN  in_live(Config_get_section(self, section, None))

\* The value merge_default_how has when init() is not given one.
Init_merge_default_how == "right"

\* init(default_config, path, auto_load, default_section, section, force_load,
\*      load_empty, ask_path, search_in_default_config, merge_default_how).
\* picked is the user's answer should open_file show its dialog, picked_save
\* the answer to the save dialog of a forced reload_default.  The current
\* config is a deep copy of the default config and gets the same two pointer
\* assignments, so both are the same value dc2.
Config_init(self, disk0, default_config, path_arg, auto_load, default_section, section, force_load, load_empty, ask_path, search, merge_default_how, picked, picked_save) ==
    LET pointed(c1) ==
            ConfigDict_set_section_attr(c1, IF section = None THEN c1.default_section
                                            ELSE section)
        counted(s) == [s EXCEPT !.init_count = @ + 1]
        loaded(l) ==
            IF l.exc # "" THEN l
            ELSE [self |-> counted(l.self), disk |-> l.disk, exc |-> ""]
        built(s1) ==
            IF ~auto_load THEN [self |-> counted(s1), disk |-> disk0, exc |-> ""]
            ELSE loaded(Config_load(s1, disk0, None, None, None, merge_default_how,
                                    picked_save))
        opened(dc2, path0) ==
            built([self EXCEPT !.force_load = force_load, !.load_empty = load_empty,
                               !.ask_path = ask_path, !.search_in_default_config = search,
                               !.default_config = dc2, !.cfg = dc2, !.path = path0,
                               !.default_path = IF path0 # None THEN path0 ELSE path_arg])
    IN  opened(pointed(ConfigDict_set_default_section_attr(ConfigDict_init(default_config),
                                                           default_section)),
               open_file(disk0, path_arg, ask_path, picked))

(***************************************************************************)
(* config_conversion.py.  A value is a record of its type and of the text  *)
(* str() gives for it; a key is a record of the flags written in front of  *)
(* it ('@flag-' each), its name and the '_N' suffixes that follow the name;*)
(* a dictionary is the sequence of its pairs, in insertion order.          *)
(***************************************************************************)
Typed(t, v) == [t |-> t, v |-> v]
NoneValue == Typed("NoneType", "None")
\* Path(None): its data is None and its str() is ''
PathNone == Typed("Path", "<None>")
\* str(v)
str_of(x) == IF x = PathNone THEN "" ELSE x.v

Key(flags, name, suffixes) == [flags |-> flags, name |-> name, suffixes |-> suffixes]

\* The result of a call that may raise
Converted(v) == [ok |-> TRUE, val |-> v, err |-> ""]
Raised(e) == [ok |-> FALSE, val |-> NoneValue, err |-> e]

\* isiterable: tuple, list or set
isiterable(x) == x.t \in {"list", "tuple", "set"}

\* ast.literal_eval: a text that is a Python literal gives its value; what is
\* no string raises ValueError, a text that is no expression SyntaxError, an
\* expression that is no literal ValueError
literal_eval(item) ==
    IF item.t # "str" THEN Raised("ValueError")
    ELSE CASE item.v \in {"1", "0"} -> Converted(Typed("int", item.v))
           [] item.v \in {"1.8", "1.0"} -> Converted(Typed("float", item.v))
           [] item.v \in {"True", "False"} -> Converted(Typed("bool", item.v))
           [] item.v = "None" -> Converted(NoneValue)
           [] item.v = "[1, 2]" -> Converted(Typed("list", item.v))
           [] item.v = "(1, 2)" -> Converted(Typed("tuple", item.v))
           [] item.v \in {"", "2019-04-01 00:00:00", "<Reference object>"} -> Raised("SyntaxError")
           [] OTHER -> Raised("ValueError")

\* int(v)
python_int(item) ==
    CASE item.t \in {"str", "Path"} ->
            IF item.v \in {"1", "0"} THEN Converted(Typed("int", item.v)) ELSE Raised("ValueError")
      [] item.t = "int" -> Converted(item)
      [] item.t = "float" -> Converted(Typed("int", IF item.v = "0.0" THEN "0" ELSE "1"))
      [] item.t = "bool" -> Converted(Typed("int", IF item.v = "True" THEN "1" ELSE "0"))
      [] OTHER -> Raised("TypeError")

\* to_float(v) without separators: float(v)
to_float(item) ==
    CASE item.t \in {"str", "Path"} ->
            IF item.v \in {"1.8", "1.0"} THEN Converted(Typed("float", item.v))
            ELSE IF item.v = "1" THEN Converted(Typed("float", "1.0"))
            ELSE IF item.v = "0" THEN Converted(Typed("float", "0.0"))
            ELSE Raised("ValueError")
      [] item.t = "float" -> Converted(item)
      [] item.t = "int" -> Converted(Typed("float", IF item.v = "0" THEN "0.0" ELSE "1.0"))
      [] item.t = "bool" -> Converted(Typed("float", IF item.v = "True" THEN "1.0" ELSE "0.0"))
      [] OTHER -> Raised("TypeError")

\* to_bool(v): False for the texts 'False' and 'None', bool(v) otherwise
to_bool(item) ==
    CASE item.t \in {"str", "Path"} ->
            Typed("bool", IF item.v \in {"False", "None", ""} \/ item = PathNone
                          THEN "False" ELSE "True")
      [] item.t = "bool" -> item
      [] item.t = "int" -> Typed("bool", IF item.v = "0" THEN "False" ELSE "True")
      [] item.t = "float" -> Typed("bool", IF item.v = "0.0" THEN "False" ELSE "True")
      [] OTHER -> Typed("bool", "True")

\* Path(v): a str or a Path, TypeError for anything else
Path_new(item) ==
    CASE item.t = "str" -> Converted(Typed("Path", item.v))
      [] item.t = "Path" -> Converted(item)
      [] OTHER -> Raised("TypeError")

\* KEY_TO_FILE.get(type(v), KEY_TO_FILE.get(object)): the flag the encoder
\* writes for a type, 'auto' for list, tuple and every type without an entry
KEY_TO_FILE(t) ==
    CASE t = "bool" -> "b"
      [] t = "int" -> "i"
      [] t = "float" -> "f"
      [] t = "Path" -> "p"
      [] t = "Reference" -> "r"
      [] t = "str" -> "s"
      [] OTHER -> "auto"

\* FILE_TO_KEY.get(key, str)(item): the decoder of a flag, str for a flag
\* without an entry.  Reference takes no argument, so Reference(item) raises.
FILE_TO_KEY(key, item) ==
    CASE key = "b" -> Converted(to_bool(item))
      [] key = "i" -> python_int(item)
      [] key = "f" -> to_float(item)
      [] key = "p" -> Path_new(item)
      [] key = "r" -> Raised("TypeError")
      [] key = "auto" -> literal_eval(item)
      [] OTHER -> Converted(Typed("str", str_of(item)))

\* _add_flags_to_key(key, flag): '@flag-' in front of the key
add_flags_to_key(key, flag) == [key EXCEPT !.flags = <<flag>> \o @]

\* convert_dict_to_str(dico): every key gets the flag of its value's type and
\* every value becomes its str()
convert_dict_to_str(dico) ==
    [i \in 1..Len(dico) |->
        [k |-> add_flags_to_key(dico[i].k, KEY_TO_FILE(dico[i].v.t)),
         v |-> Typed("str", str_of(dico[i].v))]]

\* A _single_item_conversion that drops the item when the conversion fails
\* under 'ignore'
single_item_conversion_key_drops(item, key, error) ==
    LET done(r) ==
            IF r.ok THEN [val |-> r.val, exc |-> ""]
            ELSE IF error \in {"ignore", "drop"} THEN [val |-> NoneValue, exc |-> ""]
            ELSE [val |-> NoneValue, exc |-> r.err]
    IN  IF item = NoneValue THEN [val |-> NoneValue, exc |-> ""]
        ELSE done(FILE_TO_KEY(key, item))

\* _single_item_conversion(item, key, error): None stays None; the items here
\* are strings and scalars, never iterable.  A conversion that raises gives
\* the item back under 'ignore', None under 'drop', the literal the item
\* spells (or the item) under 'auto-conversion', and raises otherwise.
single_item_conversion_key(item, key, error) ==
    LET evaluated(e) == [val |-> IF e.ok THEN e.val ELSE item, exc |-> ""]
        done(r) ==
            IF r.ok THEN [val |-> r.val, exc |-> ""]
            ELSE IF error = "ignore" THEN [val |-> item, exc |-> ""]
            ELSE IF error = "drop" THEN [val |-> NoneValue, exc |-> ""]
            ELSE IF error = "auto-conversion" THEN evaluated(literal_eval(item))
            ELSE [val |-> NoneValue, exc |-> r.err]
    IN  IF item = NoneValue THEN [val |-> NoneValue, exc |-> ""]
        ELSE done(FILE_TO_KEY(key, item))

\* _process_multiple_item_conversion: the flags are applied from the first to
\* the last, each to the result of the one before
RECURSIVE process_multiple_item_conversion(_, _, _)
process_multiple_item_conversion(item, flags, error) ==
    LET then(inner) ==
            IF inner.exc # "" THEN inner
            ELSE single_item_conversion_key(inner.val, flags[Len(flags)], error)
    IN  IF Len(flags) = 1 THEN single_item_conversion_key(item, flags[1], error)
        ELSE then(process_multiple_item_conversion(item, SubSeq(flags, 1, Len(flags) - 1), error))

\* _multiple_item_conversion(item, flags, error): no flag, no conversion
multiple_item_conversion(item, flags, error) ==
    IF flags = <<>> THEN [val |-> item, exc |-> ""]
    ELSE process_multiple_item_conversion(item, flags, error)

\* _parse_key: the flags in front of the key are taken off; flags is None
\* when there is none
parse_key(key) ==
    [key |-> [key EXCEPT !.flags = <<>>], flags |-> IF key.flags = <<>> THEN None ELSE key.flags]

\* _no_flag_handling: the flags of a key without flag, None to drop the key
no_flag_handling(no_flag) ==
    CASE no_flag = "ignore" -> [flags |-> <<>>, exc |-> ""]
      [] no_flag = "drop" -> [flags |-> None, exc |-> ""]
      [] no_flag = "auto-conversion" -> [flags |-> <<"auto">>, exc |-> ""]
      [] OTHER -> [flags |-> None, exc |-> "ValueError"]

\* The keys of a dictionary
KeysOf(dico) == {dico[i].k : i \in 1..Len(dico)}

\* key + '_N'
Renamed(key, n) == [key EXCEPT !.suffixes = @ \o <<n>>]

\* A _handle_duplicates whose 'rename' starts counting at 0
handle_duplicates_from_zero(dico, key, value, flag) ==
    LET n == CHOOSE i \in 0..Len(dico) + 1 :
                /\ Renamed(key, i) \notin KeysOf(dico)
                /\ \A j \in 0..i - 1 : Renamed(key, j) \in KeysOf(dico)
    IN  IF key \notin KeysOf(dico) THEN [dico |-> Append(dico, [k |-> key, v |-> value]), exc |-> ""]
        ELSE IF flag = "first" THEN [dico |-> dico, exc |-> ""]
        ELSE IF flag = "last"
        THEN [dico |-> [i \in 1..Len(dico) |->
                            IF dico[i].k = key THEN [k |-> key, v |-> value] ELSE dico[i]],
              exc |-> ""]
        ELSE IF flag = "rename"
        THEN [dico |-> Append(dico, [k |-> Renamed(key, n), v |-> value]), exc |-> ""]
        ELSE [dico |-> dico, exc |-> "ValueError"]

\* _handle_duplicates(dico, key, value, flag, inplace=True): a new key is
\* added; for a key dico has, 'first' changes nothing, 'last' replaces the
\* value, 'rename' adds the value under key_N with the first N from 1 that
\* dico does not have, anything else raises ValueError
handle_duplicates(dico, key, value, flag) ==
    LET n == CHOOSE i \in 1..Len(dico) + 1 :
                /\ Renamed(key, i) \notin KeysOf(dico)
                /\ \A j \in 1..i - 1 : Renamed(key, j) \in KeysOf(dico)
    IN  IF key \notin KeysOf(dico) THEN [dico |-> Append(dico, [k |-> key, v |-> value]), exc |-> ""]
        ELSE IF flag = "first" THEN [dico |-> dico, exc |-> ""]
        ELSE IF flag = "last"
        THEN [dico |-> [i \in 1..Len(dico) |->
                            IF dico[i].k = key THEN [k |-> key, v |-> value] ELSE dico[i]],
              exc |-> ""]
        ELSE IF flag = "rename"
        THEN [dico |-> Append(dico, [k |-> Renamed(key, n), v |-> value]), exc |-> ""]
        ELSE [dico |-> dico, exc |-> "ValueError"]

\* convert_dict_from_str(dico, error, no_flag, duplicates), the other
\* parameters at their defaults: each pair in turn has its key parsed, its
\* value converted by the flags of the key and is put into the new
\* dictionary through _handle_duplicates
RECURSIVE convert_dict_from_str_flags(_, _, _, _)
convert_dict_from_str_flags(dico, error, no_flag, duplicates) ==
    LET pair == dico[Len(dico)]
        stored(n_dico, n_k, c) ==
            IF c.exc # "" THEN [dico |-> n_dico, exc |-> c.exc]
            ELSE handle_duplicates(n_dico, n_k, c.val, duplicates)
        flagged(n_dico, parsed, nf) ==
            IF parsed.flags # None
            THEN stored(n_dico, parsed.key,
                        multiple_item_conversion(pair.v, parsed.flags, error))
            ELSE IF nf.exc # "" THEN [dico |-> n_dico, exc |-> nf.exc]
            ELSE IF nf.flags = None THEN [dico |-> n_dico, exc |-> ""]
            ELSE stored(n_dico, parsed.key, multiple_item_conversion(pair.v, nf.flags, error))
        then(before) ==
            IF before.exc # "" THEN before
            ELSE flagged(before.dico, parse_key(pair.k), no_flag_handling(no_flag))
    IN  IF dico = <<>> THEN [dico |-> <<>>, exc |-> ""]
        ELSE then(convert_dict_from_str_flags(SubSeq(dico, 1, Len(dico) - 1),
                                              error, no_flag, duplicates))

(***************************************************************************)
(* models/metaclasses.py: the Singleton metaclass.                         *)
(***************************************************************************)
\* Singleton._instances when the class is defined
Singleton_instances == <<>>

\* The number of the object created next
NewObject(instances0) == Cardinality(DOMAIN instances0) + 1

\* A Singleton.__call__ that builds an object at every call
Singleton_call_always_new(instances0, cls) ==
    LET created == IF cls \in DOMAIN instances0 THEN instances0[cls] + 1 ELSE 1
    IN  [instances |-> [c \in DOMAIN instances0 \cup {cls} |->
                            IF c = cls THEN created ELSE instances0[c]],
         obj |-> created,
         created |-> TRUE]

\* Singleton.__call__(cls, *args, **kwargs): the class is called (__new__ and
\* __init__ with the arguments) only when it has no registered object; the
\* registered object is returned
Singleton_call(instances0, cls) ==
    IF cls \notin DOMAIN instances0
    THEN [instances |-> [c \in DOMAIN instances0 \cup {cls} |->
                            IF c = cls THEN NewObject(instances0) ELSE instances0[c]],
          obj |-> NewObject(instances0),
          created |-> TRUE]
    ELSE [instances |-> instances0, obj |-> instances0[cls], created |-> FALSE]

(***************************************************************************)
(* The state: the attributes of the Config object, the disk, the last      *)
(* operation with its arguments and outcome, and the objects registered by *)
(* the Singleton metaclass (objects are numbered as they are created).     *)
(***************************************************************************)
VARIABLES cfg, default_config, temp_config, path, default_path, force_load, load_empty,
          ask_path, search_in_default_config, init_count, disk, last, instances

vars == <<cfg, default_config, temp_config, path, default_path, force_load, load_empty,
          ask_path, search_in_default_config, init_count, disk, last, instances>>

Self ==
    [cfg |-> cfg, default_config |-> default_config, temp_config |-> temp_config,
     path |-> path, default_path |-> default_path, force_load |-> force_load,
     load_empty |-> load_empty, ask_path |-> ask_path,
     search_in_default_config |-> search_in_default_config, init_count |-> init_count]

Becomes(s) ==
    /\ cfg' = s.cfg
    /\ default_config' = s.default_config
    /\ temp_config' = s.temp_config
    /\ path' = s.path
    /\ default_path' = s.default_path
    /\ force_load' = s.force_load
    /\ load_empty' = s.load_empty
    /\ ask_path' = s.ask_path
    /\ search_in_default_config' = s.search_in_default_config
    /\ init_count' = s.init_count
    /\ instances' = instances

\* last: the operation, its arguments, its outcome, and the object before it.
Op(op, a1, a2, a3, exc, val, pre) ==
    [op |-> op, a1 |-> a1, a2 |-> a2, a3 |-> a3, exc |-> exc, val |-> val, pre |-> pre]

\* The default configurations init() is given.
DefaultConfigBoth ==
    [n \in {"default", "s1"} |-> [k \in {"a"} |-> IF n = "default" THEN "i1" ELSE "i3"]]
DefaultConfigOne ==
    [n \in {"default", "s1"} |-> IF n = "default" THEN [k \in {"a"} |-> "i1"] ELSE EmptyDict]
DefaultConfigs == {DefaultConfigBoth, DefaultConfigOne}

\* The default configurations init() is given before a merge, the
\* configurations merged into the live one (raw section names and keys), and
\* the dictionaries merged into one section.
MergeLefts ==
    {[n \in {"default", "s1"} |->
        IF n = "default" THEN [k \in {"a", "b"} |-> IF k = "a" THEN "i1" ELSE "i2"]
        ELSE [k \in {"a"} |-> "i3"]],
     [n \in {"default"} |-> [k \in {"a"} |-> "i1"]],
     [n \in {"s1", "x"} |-> IF n = "s1" THEN [k \in {"b"} |-> "i2"] ELSE [k \in {"a"} |-> "i1"]]}
MergeRights ==
    {[n \in {"default", "x"} |->
        IF n = "default" THEN [k \in {"a"} |-> "i5"] ELSE [k \in {"b"} |-> "i6"]],
     [n \in {"default", " s1"} |->
        IF n = "default" THEN [k \in {"a", "b"} |-> IF k = "a" THEN "i5" ELSE "i6"]
        ELSE [k \in {"A"} |-> "i5"]],
     [n \in {"s1"} |-> [k \in {"b"} |-> "i6"]],
     EmptyDict}
MergeOthers ==
    {[k \in {"a"} |-> "i5"],
     [k \in {"A", "b"} |-> IF k = "A" THEN "i5" ELSE "i6"],
     [k \in {"a", "b"} |-> IF k = "a" THEN "i5" ELSE BadTypeValue],
     EmptyDict}

\* The dictionaries a section is built from, the values written into a
\* section and the defaults setdefault is given.
SectionDicts ==
    {[k \in {"a"} |-> "s7"],
     [k \in {"A", "b"} |-> IF k = "A" THEN StrOfSet ELSE BadTypeValue],
     EmptyDict}
SectionValues == {WrittenValue, BadTypeValue}

\* The files of the disk at the start.
GoodIni ==
    [n \in {"default", "x"} |-> [k \in {"a"} |-> IF n = "default" THEN "s7" ELSE "s6"]]

InitialDisk ==
    [p \in Paths |->
        CASE p = "good.ini" -> IniFile(GoodIni)
          [] p = "empty.ini" -> IniFile(EmptyDict)
          [] p = "bad.ini" -> BadFile
          [] OTHER -> NoFile]

\* What the user may answer in the dialogs: a file or None (cancel) when
\* open_file shows its dialog, a name or None when save_file shows its own.
OpenAnswers(d, p, ask) ==
    IF (p = None /\ ~ask) \/ isfile(d, p) THEN {None} ELSE {None, "good.ini"}
SaveAnswers(force) == IF force THEN {None, "missing.ini"} ELSE {None}

\* The state after CONFIG = Config(), the first call of the class: the object
\* is created with nothing initialised yet, and registered.
Init ==
    /\ cfg = Config_new.cfg
    /\ default_config = Config_new.default_config
    /\ temp_config = Config_new.temp_config
    /\ path = Config_new.path
    /\ default_path = Config_new.default_path
    /\ force_load = Config_new.force_load
    /\ load_empty = Config_new.load_empty
    /\ ask_path = Config_new.ask_path
    /\ search_in_default_config = Config_new.search_in_default_config
    /\ init_count = Config_new.init_count
    /\ disk = InitialDisk
    /\ last = Op("new", None, None, None, "", None, None)
    /\ instances = Singleton_call(Singleton_instances, "Config").instances

(***************************************************************************)
(* Operations.                                                             *)
(***************************************************************************)
\* init(default_config, search_in_default_config=..., ask_path=False): no
\* path is given, so the automatic load returns at once
DoInit ==
    \E dc \in DefaultConfigs, search \in BOOLEAN :
        /\ init_count < MaxInitCount
        /\ LET r == Config_init(Self, disk, dc, None, TRUE, "default", None,
                                FALSE, FALSE, FALSE, search, "right", None, None)
           IN  /\ Becomes(r.self)
               /\ disk' = r.disk
               /\ last' = Op("init", None, None, None, r.exc, None, None)

\* init(default_config, section=..., ask_path=False)
DoInitSection ==
    \E dc \in DefaultConfigs, section \in {None, "s1"} :
        /\ init_count < MaxInitCount
        /\ LET r == Config_init(Self, disk, dc, None, TRUE, "default", section,
                                FALSE, FALSE, FALSE, TRUE, "right", None, None)
           IN  /\ Becomes(r.self)
               /\ disk' = r.disk
               /\ last' = Op("init", None, None, None, r.exc, None, None)

\* init(default_config, path, force_load=..., load_empty=..., merge_default_how=...)
DoInitPath ==
    \E p \in {None, "good.ini", "missing.ini"}, force \in BOOLEAN :
      \E picked \in OpenAnswers(disk, p, FALSE), picked_save \in SaveAnswers(force) :
        /\ init_count < MaxInitCount
        /\ LET r == Config_init(Self, disk, DefaultConfigBoth, p, TRUE, "default", None,
                                force, FALSE, FALSE, TRUE, "right", picked, picked_save)
           IN  /\ Becomes(r.self)
               /\ disk' = r.disk
               /\ last' = Op("init", None, None, None, r.exc, None, None)

\* CONFIG[key] = value
SetItem ==
    \E key \in {"a"} :
        LET r == Config_setitem(Self, key, WrittenValue)
        IN  /\ Becomes(r.self)
            /\ last' = Op("setitem", key, WrittenValue, None, r.exc, None, None)
            /\ UNCHANGED disk

\* CONFIG[item]
GetItem ==
    \E item \in {"a", "z"} :
        LET r == Config_getitem(Self, item)
        IN  /\ Becomes(r.self)
            /\ last' = Op("getitem", item, r.src, None, r.out.exc, r.out.val, Self)
            /\ UNCHANGED disk

\* CONFIG.get(item, default)
Get ==
    \E item \in {"a", "z"} :
        LET r == Config_get(Self, item, DefaultArg)
        IN  /\ Becomes(r.self)
            /\ last' = Op("get", item, r.src, DefaultArg, r.out.exc, r.out.val, Self)
            /\ UNCHANGED disk

\* CONFIG(section, key) and CONFIG(section, key, default)
Call ==
    \E section \in SecNames, key \in {"a", "z"}, has_default \in BOOLEAN :
        LET r == Config_call(Self, section, key, has_default, DefaultArg)
        IN  /\ Becomes(r.self)
            /\ last' = Op("call", section, key, has_default, r.out.exc, r.out.val, Self)
            /\ UNCHANGED disk

\* CONFIG(key) and CONFIG(key, default=default): section is default_section
CallKey ==
    \E key \in {"a", "z"}, has_default \in BOOLEAN :
        LET r == Config_call(Self, cfg.default_section, key, has_default, DefaultArg)
        IN  /\ Becomes(r.self)
            /\ last' = Op("callkey", cfg.default_section, key, has_default,
                          r.out.exc, r.out.val, Self)
            /\ UNCHANGED disk

\* CONFIG.temp_config = {...}
SetTempConfig ==
    \E other \in {EmptyDict, [k \in {"a"} |-> TempValue]} :
        /\ temp_config' = other
        /\ last' = Op("temp_config", None, None, None, "", None, None)
        /\ UNCHANGED <<cfg, default_config, path, default_path, force_load, load_empty,
                       ask_path, search_in_default_config, init_count, disk, instances>>

\* CONFIG.section = name
AssignSection ==
    \E name \in SecNames \cup {None} :
        /\ cfg' = ConfigDict_set_section_attr(cfg, name)
        /\ last' = Op("section", name, None, None, "", None, None)
        /\ UNCHANGED <<default_config, temp_config, path, default_path, force_load,
                       load_empty, ask_path, search_in_default_config, init_count, disk, instances>>

\* CONFIG.default_section = name
AssignDefaultSection ==
    \E name \in SecNames \cup {None} :
        /\ cfg' = ConfigDict_set_default_section_attr(cfg, name)
        /\ last' = Op("default_section", name, None, None, "", None, None)
        /\ UNCHANGED <<default_config, temp_config, path, default_path, force_load,
                       load_empty, ask_path, search_in_default_config, init_count, disk, instances>>

\* CONFIG.clear(section=None)
Clear ==
    \E section \in SecNames \cup {None} :
        /\ cfg' = ConfigDict_clear(cfg, section)
        /\ last' = Op("clear", section, None, None, "", None, None)
        /\ UNCHANGED <<default_config, temp_config, path, default_path, force_load,
                       load_empty, ask_path, search_in_default_config, init_count, disk, instances>>

\* CONFIG.add_section(section)
AddSection ==
    \E section \in SecNames :
        /\ cfg' = ConfigDict_add_section(cfg, section, EmptyDict)
        /\ last' = Op("add_section", section, None, None, "", None, None)
        /\ UNCHANGED <<default_config, temp_config, path, default_path, force_load,
                       load_empty, ask_path, search_in_default_config, init_count, disk, instances>>

\* CONFIG.get_section(section): val is the SectionDict returned, or None
GetSection ==
    \E section \in RawSections :
        LET r == Config_get_section(Self, section, None)
            has == ConfigDict_has_section(r.cfg, section)
        IN  /\ Becomes(r)
            /\ last' = Op("get_section", section, None, None, "",
                          IF has THEN ConfigDict_get_section(r.cfg, section) ELSE None, Self)
            /\ UNCHANGED disk

\* CONFIG.set_section(section)
SetSection ==
    \E section \in RawSections :
        LET r == Config_set_section(Self, section, TRUE, None)
        IN  /\ Becomes(r)
            /\ last' = Op("set_section", section, None, None, "", None, Self)
            /\ UNCHANGED disk

\* CONFIG.load_config(section)
LoadConfig ==
    \E section \in RawSections :
        LET r == Config_load_config(Self, section)
        IN  /\ Becomes(r)
            /\ last' = Op("load_config", section, None, None, "", None, Self)
            /\ UNCHANGED disk

\* CONFIG.load(path, force_load=..., merge_how=...)
Load ==
    \E p \in Paths \cup {None}, force \in {None, "True"}, empty \in {None, "True"},
       how \in {"right", "outer"} :
      \E picked \in SaveAnswers(Opt(force, force_load)) :
        LET r == Config_load(Self, disk, p, force, empty, how, picked)
        IN  /\ Becomes(r.self)
            /\ disk' = r.disk
            /\ last' = Op("load", p, Opt(force, force_load), Opt(empty, load_empty),
                          r.exc, None, [self |-> Self, disk |-> disk])

\* init(default_config, ask_path=False) with the configurations the merges
\* start from
DoInitMerge ==
    \E dc \in MergeLefts :
        /\ init_count < MaxInitCount
        /\ LET r == Config_init(Self, disk, dc, None, TRUE, "default", None,
                                FALSE, FALSE, FALSE, FALSE, "right", None, None)
           IN  /\ Becomes(r.self)
               /\ disk' = r.disk
               /\ last' = Op("init", None, None, None, r.exc, None, None)

\* CONFIG.merge(config_dict, how, how_section), applied to the configuration
\* init() built.  last: a1 is ConfigDict(config_dict), a2 is how, a3 is
\* how_section, pre is the live config before.
Merge ==
    \E dico \in MergeRights, how \in Hows, how_section \in Hows \cup {None} :
        /\ last.op = "init"
        /\ LET right == ConfigDict_init(dico)
               r == Config_merge(Self, right, how, how_section)
           IN  /\ Becomes(r.self)
               /\ last' = Op("merge", right, how, how_section, r.exc, None, cfg)
        /\ UNCHANGED disk

\* CONFIG.config.get_section(section).merge(other, how, inplace=True), applied
\* to a section of the configuration init() built.  last: a1 is the section
\* name, a2 is other, a3 is how, pre is the live config before.
MergeSection ==
    \E section \in DOMAIN cfg.cfg, other \in MergeOthers,
       how \in Hows \cup {"replace", "update"} :
        /\ last.op = "init"
        /\ LET r == SectionDict_merge(ConfigDict_get_section(cfg, section), other, how)
           IN  /\ cfg' = [cfg EXCEPT !.cfg[section] = r.sd]
               /\ last' = Op("merge_section", section, other, how, r.exc, None, cfg)
        /\ UNCHANGED <<default_config, temp_config, path, default_path, force_load,
                       load_empty, ask_path, search_in_default_config, init_count, disk, instances>>

\* The merge just made, made once more with the same arguments.  last: as
\* for Merge, pre being the live config between the two merges.
MergeAgain ==
    /\ last.op = "merge"
    /\ LET r == Config_merge(Self, last.a1, last.a2, last.a3)
       IN  /\ Becomes(r.self)
           /\ last' = Op("merge_again", last.a1, last.a2, last.a3, r.exc, None, cfg)
    /\ UNCHANGED disk

\* The section merge just made, made once more with the same arguments.
MergeSectionAgain ==
    /\ last.op = "merge_section"
    /\ LET r == SectionDict_merge(ConfigDict_get_section(cfg, last.a1), last.a2, last.a3)
       IN  /\ cfg' = [cfg EXCEPT !.cfg[last.a1] = r.sd]
           /\ last' = Op("merge_section_again", last.a1, last.a2, last.a3, r.exc, None, cfg)
    /\ UNCHANGED <<default_config, temp_config, path, default_path, force_load,
                   load_empty, ask_path, search_in_default_config, init_count, disk, instances>>

\* CONFIG.add_section(section, section_dict, auto_cast)
AddSectionDict ==
    \E section \in {"x"}, section_dict \in SectionDicts, auto_cast \in BOOLEAN :
        /\ cfg' = ConfigDict_add_section_auto_cast(cfg, section, section_dict, auto_cast)
        /\ last' = Op("add_section", section, section_dict, auto_cast, "", None, None)
        /\ UNCHANGED <<default_config, temp_config, path, default_path, force_load,
                       load_empty, ask_path, search_in_default_config, init_count, disk, instances>>

\* CONFIG.config.get_section(section)[key] = value (the same through
\* attribute assignment, which calls __setitem__)
SectionSetItem ==
    \E section \in DOMAIN cfg.cfg \cap {"default", "x"}, key \in {"A"}, value \in SectionValues :
        /\ cfg' = [cfg EXCEPT !.cfg[section] = SectionDict_setitem(@, key, value)]
        /\ last' = Op("section_setitem", section, key, value, "", None, None)
        /\ UNCHANGED <<default_config, temp_config, path, default_path, force_load,
                       load_empty, ask_path, search_in_default_config, init_count, disk, instances>>

\* CONFIG.config.get_section(section).setdefault(key, default)
SectionSetDefault ==
    \E section \in DOMAIN cfg.cfg \cap {"default", "x"}, key \in {"b"}, default \in SectionValues :
        LET r == SectionDict_setdefault(cfg.cfg[section], key, default)
        IN  /\ cfg' = [cfg EXCEPT !.cfg[section] = r.sd]
            /\ last' = Op("section_setdefault", section, key, default, r.exc, None, None)
            /\ UNCHANGED <<default_config, temp_config, path, default_path, force_load,
                           load_empty, ask_path, search_in_default_config, init_count, disk, instances>>

\* CONFIG.config.get_section(section).clear()
SectionClear ==
    \E section \in DOMAIN cfg.cfg :
        /\ cfg' = [cfg EXCEPT !.cfg[section] = SectionDict_clear(@)]
        /\ last' = Op("section_clear", section, None, None, "", None, None)
        /\ UNCHANGED <<default_config, temp_config, path, default_path, force_load,
                       load_empty, ask_path, search_in_default_config, init_count, disk, instances>>

\* The keys as a caller may write a stored key: another case, surrounding
\* blanks.
KeyVariants == {"A"}

\* CONFIG.config.get_section(section)[item] with a variant of a key
SectionGetItem ==
    \E section \in DOMAIN cfg.cfg, item \in KeyVariants :
        LET r == SectionDict_getitem(cfg.cfg[section], item)
        IN  /\ last' = Op("section_getitem", section, item, None, r.exc, r.val, Self)
            /\ UNCHANGED <<cfg, default_config, temp_config, path, default_path, force_load,
                           load_empty, ask_path, search_in_default_config, init_count, disk, instances>>

\* CONFIG.config[item] with a variant of a key
ConfigDictGetItem ==
    \E item \in KeyVariants :
        LET r == ConfigDict_getitem(cfg, item)
        IN  /\ last' = Op("config_dict_getitem", item, None, None, r.exc, r.val, Self)
            /\ UNCHANGED <<cfg, default_config, temp_config, path, default_path, force_load,
                           load_empty, ask_path, search_in_default_config, init_count, disk, instances>>

\* CONFIG[item] with a variant of a key
GetItemVariant ==
    \E item \in KeyVariants :
        LET r == Config_getitem(Self, item)
        IN  /\ Becomes(r.self)
            /\ last' = Op("getitem", item, r.src, None, r.out.exc, r.out.val, Self)
            /\ UNCHANGED disk

\* CONFIG(section, key) with a variant of a key
CallVariant ==
    \E section \in SecNames, key \in KeyVariants :
        LET r == Config_call(Self, section, key, FALSE, None)
        IN  /\ Becomes(r.self)
            /\ last' = Op("call", section, key, FALSE, r.out.exc, r.out.val, Self)
            /\ UNCHANGED disk

\* init(default_config, path, section=..., ask_path=False) with the path of
\* a file or no path, and no merge_default_how.  last: a1 is path, a2 is
\* default_config, a3 is section, pre is the object and the disk before.
InitFile ==
    \E dc \in DefaultConfigs, p \in {None, "good.ini"}, section \in {None, "s1"} :
        /\ init_count < MaxInitCount
        /\ LET r == Config_init(Self, disk, dc, p, TRUE, "default", section, FALSE, FALSE,
                                FALSE, TRUE, Init_merge_default_how, None, None)
           IN  /\ Becomes(r.self)
               /\ disk' = r.disk
               /\ last' = Op("init", p, dc, section, r.exc, None,
                             [self |-> Self, disk |-> disk])

\* CONFIG.load(path) of a file
LoadFile ==
    \E p \in {"good.ini", "empty.ini"} :
        LET r == Config_load(Self, disk, p, None, None, "right", None)
        IN  /\ Becomes(r.self)
            /\ disk' = r.disk
            /\ last' = Op("load", p, force_load, load_empty, r.exc, None,
                          [self |-> Self, disk |-> disk])

\* What last keeps of the state before an operation on the paths: the two
\* paths and the disk.
PathsBefore == [self |-> [path |-> path, default_path |-> default_path], disk |-> disk]

\* init(default_config, path, ask_path=False) with the path of a file or no
\* path.  last: a1 is path.
InitReload ==
    \E p \in {None, "good.ini"} :
        /\ init_count < MaxInitCount
        /\ LET r == Config_init(Self, disk, DefaultConfigBoth, p, TRUE, "default", None, FALSE,
                                FALSE, FALSE, TRUE, Init_merge_default_how, None, None)
           IN  /\ Becomes(r.self)
               /\ disk' = r.disk
               /\ last' = Op("init", p, None, None, r.exc, None, PathsBefore)

\* CONFIG.reload_default(write=..., backup=False)
ReloadDefault ==
    \E write \in BOOLEAN :
      \E picked \in SaveAnswers(write) :
        LET r == Config_reload_default(Self, disk, write, "right", picked)
        IN  /\ Becomes(r.self)
            /\ disk' = r.disk
            /\ last' = Op("reload_default", write, None, None, r.exc, None, PathsBefore)

\* CONFIG.load(path, force_load=True)
LoadForced ==
    \E p \in {"bad.ini", "missing.ini"}, picked \in SaveAnswers(TRUE) :
        LET r == Config_load(Self, disk, p, "True", None, "right", picked)
        IN  /\ Becomes(r.self)
            /\ disk' = r.disk
            /\ last' = Op("load", p, TRUE, load_empty, r.exc, None, PathsBefore)

\* CONFIG.save_config(path)
SaveConfig ==
    \E p \in {"missing.ini"}, picked \in {None} :
        LET r == Config_save_config_path(Self, disk, p, picked)
        IN  /\ Becomes(r.self)
            /\ disk' = r.disk
            /\ last' = Op("save_config", p, None, None, "", None, PathsBefore)

\* CONFIG.default_path = value
AssignDefaultPath ==
    \E value \in {"empty.ini"} :
        /\ Becomes(Config_set_default_path(Self, value))
        /\ last' = Op("default_path", value, None, None, "", None, PathsBefore)
        /\ UNCHANGED disk

\* CONFIG.edit(path=...), CONFIG.edit(default_path=...)
Edit ==
    \E attr \in {"path", "default_path"}, value \in {"empty.ini"} :
        /\ Becomes(Config_edit(Self, disk, attr, value, None))
        /\ last' = Op("edit", attr, value, None, "", None, PathsBefore)
        /\ UNCHANGED disk

\* CONFIG.merge(config_dict, how, how_section, inplace=True) with a join mode
\* that merge_dict_preprocessing does not know, as how or as how_section.
\* last: a1 is ConfigDict(config_dict), a2 is how, a3 is how_section, pre is
\* the live config before.
MergeUnknown ==
    \E dico \in MergeRights, how \in {BadHow, "outer", "append"}, how_section \in {BadHow, None} :
        /\ BadHow \in {how, how_section}
        /\ \E r \in Config_merge_outcomes(Self, ConfigDict_init(dico), how, how_section) :
            /\ Becomes(r.self)
            /\ last' = Op("merge", ConfigDict_init(dico), how, how_section, r.exc, None, cfg)
        /\ UNCHANGED disk

\* CONFIG.config.get_section(section).merge(other, how, inplace=True) with an
\* unknown join mode.  last: a1 is the section, a2 is how, pre is the live
\* config before.
MergeSectionUnknown ==
    \E section \in DOMAIN cfg.cfg, other \in MergeOthers :
        /\ LET r == SectionDict_merge(ConfigDict_get_section(cfg, section), other, BadHow)
           IN  /\ cfg' = [cfg EXCEPT !.cfg[section] = r.sd]
               /\ last' = Op("merge_section", section, BadHow, None, r.exc, None, cfg)
        /\ UNCHANGED <<default_config, temp_config, path, default_path, force_load,
                       load_empty, ask_path, search_in_default_config, init_count, disk, instances>>

\* CONFIG.load(path, merge_how=...) of a file with an unknown join mode.
\* last: a1 is path, a2 is merge_how, pre is the live config before.
LoadUnknown ==
    \E p \in {"good.ini", "empty.ini"} :
        LET r == Config_load(Self, disk, p, None, None, BadHow, None)
        IN  /\ Becomes(r.self)
            /\ disk' = r.disk
            /\ last' = Op("load", p, BadHow, None, r.exc, None, cfg)

\* The keys and the values a dictionary is encoded from: a value of each type
\* a section accepts, and None.
ConversionKeys == {Key(<<>>, "a", <<>>), Key(<<>>, "b", <<>>)}
TypedValues ==
    {Typed("bool", "True"), Typed("bool", "False"), Typed("int", "1"), Typed("int", "0"),
     Typed("float", "1.8"), Typed("float", "1.0"),
     Typed("str", "abc"), Typed("str", "1"), Typed("str", ""), Typed("str", "True"),
     Typed("str", "None"), Typed("list", "[1, 2]"), Typed("tuple", "(1, 2)"),
     Typed("Path", "a/b.txt"), PathNone, Typed("Reference", "<Reference object>"),
     Typed("datetime", "2019-04-01 00:00:00"), NoneValue}

\* convert_dict_from_str(convert_dict_to_str({k: v})).  last: a1 is {k: v},
\* a2 is the encoded dictionary, val is the decoded one.
ConvertRoundTrip ==
    \E k \in ConversionKeys, v \in TypedValues :
        LET dico == <<[k |-> k, v |-> v]>>
            r == convert_dict_from_str_flags(convert_dict_to_str(dico), "ignore", "ignore", "first")
        IN  /\ last' = Op("round_trip", dico, convert_dict_to_str(dico), None, r.exc, r.dico, None)
            /\ UNCHANGED <<cfg, default_config, temp_config, path, default_path, force_load,
                           load_empty, ask_path, search_in_default_config, init_count, disk, instances>>

\* The flags in front of a key, one or two, and the strings read from a file.
ConversionFlags == {"b", "i", "f", "r", "auto"}
FlagLists == {<<f>> : f \in ConversionFlags} \cup {<<f, g>> : f, g \in ConversionFlags}
InputStrings == {"abc", "1", "1.8", "True", "None"}
ErrorPolicies == {"ignore", "error"}

\* convert_dict_from_str({'@f1-@f2-a': item}, error=...).  last: a1 is the
\* flags, a2 is the item, a3 is error, val is the decoded dictionary.
ConvertFlagged ==
    \E flags \in FlagLists, item \in InputStrings, error \in ErrorPolicies :
        LET dico == <<[k |-> Key(flags, "a", <<>>), v |-> Typed("str", item)]>>
            r == convert_dict_from_str_flags(dico, error, "ignore", "first")
        IN  /\ last' = Op("convert", flags, Typed("str", item), error, r.exc, r.dico, None)
            /\ UNCHANGED <<cfg, default_config, temp_config, path, default_path, force_load,
                           load_empty, ask_path, search_in_default_config, init_count, disk, instances>>

\* The keys of a file of which several have the same name once the flags are
\* off, the values by position, and the policies for duplicates.
DuplicateKeys ==
    {Key(<<>>, "a", <<>>), Key(<<"i">>, "a", <<>>), Key(<<"s">>, "a", <<>>),
     Key(<<>>, "a", <<1>>), Key(<<>>, "b", <<>>)}
DuplicateValues == <<"1", "0", "abc">>
DuplicateInputs ==
    {<<[k |-> k1, v |-> Typed("str", DuplicateValues[1])],
       [k |-> k2, v |-> Typed("str", DuplicateValues[2])],
       [k |-> k3, v |-> Typed("str", DuplicateValues[3])]>> :
        k1 \in DuplicateKeys, k2 \in DuplicateKeys \ {Key(<<>>, "b", <<>>)},
        k3 \in DuplicateKeys \ {Key(<<>>, "b", <<>>)}}
DuplicatePolicies == {"first", "last", "rename", "error"}

\* convert_dict_from_str(dico, duplicates=...) of an ordered dictionary of
\* three pairs.  last: a1 is dico, a2 is duplicates, val is the result.
ConvertDuplicates ==
    \E dico \in DuplicateInputs, duplicates \in DuplicatePolicies :
        /\ Cardinality(KeysOf(dico)) = Len(dico)
        /\ LET r == convert_dict_from_str_flags(dico, "ignore", "ignore", duplicates)
           IN  last' = Op("duplicates", dico, duplicates, None, r.exc, r.dico, None)
        /\ UNCHANGED <<cfg, default_config, temp_config, path, default_path, force_load,
                       load_empty, ask_path, search_in_default_config, init_count, disk, instances>>

\* The object CONFIG refers to: the first one created.
CONFIG == 1

\* Config(), Config('x') or Config(path='x') somewhere in the program, CONFIG
\* being held since the start.  A call that creates an object runs
\* Config.__init__ on the new object, which leaves CONFIG alone.  last: a1
\* tells whether arguments were given, a2 is the registered object before,
\* val is the object returned with the attributes read through it, pre is
\* CONFIG before.
Construct ==
    \E args \in BOOLEAN :
        LET r == Singleton_call(instances, "Config")
        IN  /\ instances' = r.instances
            /\ last' = Op("Config", args, instances["Config"], None, "",
                          [obj |-> r.obj, self |-> IF r.obj = CONFIG THEN Self ELSE Config_new],
                          Self)
            /\ UNCHANGED <<cfg, default_config, temp_config, path, default_path, force_load,
                           load_empty, ask_path, search_in_default_config, init_count, disk>>

\* The names the two pointers of the live ConfigDict are assigned.
PointerNames == {"s1", "x", "y"}

\* CONFIG.config.section = name.  last: a1 is name, pre is the ConfigDict
\* before.
PointSection ==
    \E name \in PointerNames :
        /\ cfg' = ConfigDict_set_section_attr(cfg, name)
        /\ last' = Op("section_attr", name, None, None, "", None, cfg)
        /\ UNCHANGED <<default_config, temp_config, path, default_path, force_load,
                       load_empty, ask_path, search_in_default_config, init_count, disk, instances>>

\* CONFIG.config.default_section = name.  last: a1 is name, pre is the
\* ConfigDict before.
PointDefaultSection ==
    \E name \in PointerNames :
        /\ cfg' = ConfigDict_set_default_section_attr(cfg, name)
        /\ last' = Op("default_section_attr", name, None, None, "", None, cfg)
        /\ UNCHANGED <<default_config, temp_config, path, default_path, force_load,
                       load_empty, ask_path, search_in_default_config, init_count, disk, instances>>

\* CONFIG[key] right after CONFIG[key] = value.  last: a1 is key, a2 is the
\* value written, a3 is what the write raised, exc and val are the outcome of
\* the read.
ReadAfterWrite ==
    /\ last.op = "setitem"
    /\ LET r == Config_getitem(Self, last.a1)
       IN  /\ Becomes(r.self)
           /\ last' = Op("read_after_write", last.a1, last.a2, last.exc,
                         r.out.exc, r.out.val, None)
    /\ UNCHANGED disk

\* CONFIG[key] = value.  last: a1 is key, a2 is value, pre is the live config
\* before.
WriteItem ==
    \E key \in {"a", "b"} :
        LET r == Config_setitem(Self, key, WrittenValue)
        IN  /\ Becomes(r.self)
            /\ last' = Op("write", key, WrittenValue, None, r.exc, None, cfg)
            /\ UNCHANGED disk

\* CONFIG[key].  last: a1 is key, pre is the live config before.
ReadItem ==
    \E key \in {"a", "b"} :
        LET r == Config_getitem(Self, key)
        IN  /\ Becomes(r.self)
            /\ last' = Op("read", key, None, None, r.out.exc, r.out.val, cfg)
            /\ UNCHANGED disk

\* CONFIG.setdefault(k, default).  last: a1 is k, a2 is default, pre is the
\* live config before.
SetDefault ==
    \E k \in {"a", "b"} :
        LET r == Config_setdefault(Self, k, DefaultArg)
        IN  /\ Becomes(r.self)
            /\ last' = Op("setdefault", k, DefaultArg, None, r.out.exc, r.out.val, cfg)
            /\ UNCHANGED disk

\* The operations on the live config, each with one input, that the default
\* config has to survive.  last keeps the name of the operation only (a1 of
\* a merge is how, a2 is how_section).
Did(op) == Op(op, None, None, None, "", None, None)

\* init(default_config, ask_path=False)
InitBoth ==
    /\ init_count < MaxInitCount
    /\ LET r == Config_init(Self, disk, DefaultConfigBoth, None, TRUE, "default", None,
                            FALSE, FALSE, FALSE, TRUE, "right", None, None)
       IN  /\ Becomes(r.self)
           /\ disk' = r.disk
           /\ last' = Did("init")

\* CONFIG['a']
LookupItem ==
    /\ Becomes(Config_getitem(Self, "a").self)
    /\ last' = Did("getitem")
    /\ UNCHANGED disk

\* CONFIG.get('z', default)
LookupGet ==
    /\ Becomes(Config_get(Self, "z", DefaultArg).self)
    /\ last' = Did("get")
    /\ UNCHANGED disk

\* CONFIG('s1', 'a')
LookupCall ==
    /\ Becomes(Config_call(Self, "s1", "a", FALSE, DefaultArg).self)
    /\ last' = Did("call")
    /\ UNCHANGED disk

\* CONFIG['a'] = value
StoreItem ==
    LET r == Config_setitem(Self, "a", WrittenValue)
    IN  /\ Becomes(r.self)
        /\ last' = [Did("store") EXCEPT !.exc = r.exc]
        /\ UNCHANGED disk

\* CONFIG.setdefault('b', default)
StoreDefault ==
    /\ Becomes(Config_setdefault(Self, "b", DefaultArg).self)
    /\ last' = Did("store_default")
    /\ UNCHANGED disk

\* CONFIG.get_section('s1')
TakeSection ==
    /\ Becomes(Config_get_section(Self, "s1", None))
    /\ last' = Did("get_section")
    /\ UNCHANGED disk

\* CONFIG.set_section('s1')
MoveToSection ==
    /\ Becomes(Config_set_section(Self, "s1", TRUE, None))
    /\ last' = Did("set_section")
    /\ UNCHANGED disk

\* CONFIG.add_section('x')
NewSection ==
    /\ Becomes([Self EXCEPT !.cfg = ConfigDict_add_section(@, "x", EmptyDict)])
    /\ last' = Did("add_section")
    /\ UNCHANGED disk

\* CONFIG.merge(other, inplace=True), CONFIG.append(other), CONFIG.update(other)
\* and CONFIG.replace(other)
MergeModes == {<<"outer", None>>, <<"outer", "append">>, <<"outer", "outer">>, <<"right", "right">>}
MergeAny ==
    \E mode \in MergeModes :
        LET other == [n \in {"default"} |-> [k \in {"a"} |-> WrittenValue]]
            r == Config_merge(Self, ConfigDict_init(other), mode[1], mode[2])
        IN  /\ Becomes(r.self)
            /\ last' = [Did("merge") EXCEPT !.a1 = mode[1], !.a2 = mode[2], !.exc = r.exc]
            /\ UNCHANGED disk

\* CONFIG.clear() and CONFIG.clear('s1')
ClearSome ==
    \E section \in {None, "s1"} :
        /\ Becomes([Self EXCEPT !.cfg = ConfigDict_clear(@, section)])
        /\ last' = Did("clear")
        /\ UNCHANGED disk

\* CONFIG.load('good.ini')
LoadGood ==
    LET r == Config_load(Self, disk, "good.ini", None, None, "right", None)
    IN  /\ Becomes(r.self)
        /\ disk' = r.disk
        /\ last' = [Did("load") EXCEPT !.exc = r.exc]

\* CONFIG.reload_default(write=..., backup=False), the dialog cancelled
ReloadDefaults ==
    \E write \in BOOLEAN :
        LET r == Config_reload_default(Self, disk, write, "right", None)
        IN  /\ Becomes(r.self)
            /\ disk' = r.disk
            /\ last' = [Did("reload_default") EXCEPT !.exc = r.exc]

\* CONFIG.save_config('missing.ini')
SaveTo ==
    LET r == Config_save_config_path(Self, disk, "missing.ini", None)
    IN  /\ Becomes(r.self)
        /\ disk' = r.disk
        /\ last' = Did("save_config")

\* The call-style lookup and the operations that shape what it sees.
NextCall ==
    \/ DoInit
    \/ SetItem
    \/ Clear
    \/ AssignDefaultSection
    \/ AddSection
    \/ Call
    \/ CallKey
    \/ GetItem

SpecCall == Init /\ [][NextCall]_vars

\* Plain indexing with temp_config and the section pointers.
NextGet ==
    \/ DoInitSection
    \/ SetItem
    \/ Clear
    \/ AssignSection
    \/ AssignDefaultSection
    \/ SetTempConfig
    \/ GetItem
    \/ Get

SpecGet == Init /\ [][NextGet]_vars

\* The section operations.
NextSection ==
    \/ DoInit
    \/ Clear
    \/ AddSection
    \/ AssignSection
    \/ AssignDefaultSection
    \/ GetSection
    \/ SetSection
    \/ LoadConfig

SpecSection == Init /\ [][NextSection]_vars

\* Loading from disk.
NextLoad ==
    \/ DoInitPath
    \/ SetItem
    \/ Load

SpecLoad == Init /\ [][NextLoad]_vars

\* Merging into the live config and into one of its sections.
NextMerge ==
    \/ DoInitMerge
    \/ Merge
    \/ MergeSection
    \/ MergeAgain
    \/ MergeSectionAgain

SpecMerge == Init /\ [][NextMerge]_vars

\* The operations of one section.
NextValues ==
    \/ DoInitMerge
    \/ AddSectionDict
    \/ SectionSetItem
    \/ SectionSetDefault
    \/ SectionClear
    \/ MergeSection

SpecValues == Init /\ [][NextValues]_vars

\* Reading a stored key through each read path.
NextKeys ==
    \/ DoInit
    \/ SetItem
    \/ Clear
    \/ AddSection
    \/ AssignSection
    \/ SectionGetItem
    \/ ConfigDictGetItem
    \/ GetItemVariant
    \/ CallVariant

SpecKeys == Init /\ [][NextKeys]_vars

\* init() with a file, and init() again after other operations.
NextInit ==
    \/ InitFile
    \/ SetItem
    \/ SetTempConfig
    \/ AssignSection
    \/ LoadFile

SpecInit == Init /\ [][NextInit]_vars

\* Going back to the default config, and the operations that move the paths.
NextReload ==
    \/ InitReload
    \/ SetItem
    \/ ReloadDefault
    \/ LoadForced
    \/ SaveConfig
    \/ AssignDefaultPath
    \/ Edit

SpecReload == Init /\ [][NextReload]_vars

\* Merges with a join mode that is not known.
NextUnknown ==
    \/ DoInitMerge
    \/ SetItem
    \/ MergeUnknown
    \/ MergeSectionUnknown
    \/ LoadUnknown

SpecUnknown == Init /\ [][NextUnknown]_vars

\* The conversions between typed dictionaries and dictionaries of strings.
NextConversion ==
    \/ ConvertRoundTrip
    \/ ConvertFlagged
    \/ ConvertDuplicates

SpecConversion == Init /\ [][NextConversion]_vars

\* Calls of the Config class between the operations on CONFIG.
NextSingleton ==
    \/ InitFile
    \/ SetItem
    \/ LoadFile
    \/ Construct

SpecSingleton == Init /\ [][NextSingleton]_vars

\* Assignments to the two pointers of the live ConfigDict.
NextPointers ==
    \/ DoInit
    \/ SetItem
    \/ Clear
    \/ PointSection
    \/ PointDefaultSection

SpecPointers == Init /\ [][NextPointers]_vars

\* An item write followed by the read of the same key.
NextReadWrite ==
    \/ DoInitSection
    \/ SetItem
    \/ ReadAfterWrite
    \/ Clear
    \/ AssignSection
    \/ AssignDefaultSection
    \/ SetTempConfig

SpecReadWrite == Init /\ [][NextReadWrite]_vars

\* The operations that bring a section of the default config into the live
\* config.
NextImport ==
    \/ DoInit
    \/ Clear
    \/ AddSection
    \/ GetSection
    \/ SetSection
    \/ Call

SpecImport == Init /\ [][NextImport]_vars

\* The operations on one key.
NextItems ==
    \/ DoInitSection
    \/ AssignSection
    \/ WriteItem
    \/ ReadItem
    \/ SetDefault

SpecItems == Init /\ [][NextItems]_vars

\* The operations on the live config, next to the default config.
NextFrame ==
    \/ InitBoth
    \/ LookupItem
    \/ LookupGet
    \/ LookupCall
    \/ StoreItem
    \/ StoreDefault
    \/ TakeSection
    \/ MoveToSection
    \/ NewSection
    \/ MergeAny
    \/ ClearSome
    \/ LoadGood
    \/ ReloadDefaults
    \/ SaveTo

SpecFrame == Init /\ [][NextFrame]_vars

(***************************************************************************)
(* Claims.                                                                 *)
(***************************************************************************)
\* The layers of a lookup: the section s of config dictionary cd, as a
\* mapping (empty when s is None or names no section of cd).
Layer(cd, s) == IF s # None /\ s \in DOMAIN cd.cfg THEN cd.cfg[s] ELSE EmptyDict

\* The value of the first of the layers (a sequence) that contains key, or
\* the outcome otherwise when none does.
RECURSIVE FirstOf(_, _, _)
FirstOf(layers, key, otherwise) ==
    IF layers = << >> THEN otherwise
    ELSE IF key \in DOMAIN Head(layers) THEN Ret(Head(layers)[key])
    ELSE FirstOf(Tail(layers), key, otherwise)

LastOutcome == [exc |-> last.exc, val |-> last.val]

\* C1: a call-style lookup CONFIG(section, key[, default]), for a section that
\* exists in both the live and the default config, a key in its stored form and
\* search_in_default_config enabled, returns the value held by the first of:
\* the named section of the live config, the default section of the live
\* config, the named section of the default config, the default section of
\* the default config; when none holds the key it returns the default if one
\* was supplied and raises KeyError otherwise.  CONFIG(key) is
\* CONFIG(default_section, key).
C1_CallCascade ==
    (/\ last.op \in {"call", "callkey"}
     /\ last.a1 \in DOMAIN last.pre.cfg.cfg
     /\ last.a1 \in DOMAIN last.pre.default_config.cfg
     /\ last.pre.search_in_default_config)
    => LastOutcome =
         FirstOf(<<Layer(last.pre.cfg, last.a1),
                   Layer(last.pre.cfg, last.pre.cfg.default_section),
                   Layer(last.pre.default_config, last.a1),
                   Layer(last.pre.default_config, last.pre.default_config.default_section)>>,
                 last.a2,
                 IF last.a3 THEN Ret(DefaultArg) ELSE Raise("KeyError"))

\* C2: plain indexing CONFIG[key] (and CONFIG.get) returns the value held by the
\* first of: temp_config, the current section of the live config, its default
\* section, the current section of the default config, its default section;
\* KeyError is raised (the default returned by get) only when none holds the key.
C2_GetItemCascade ==
    last.op \in {"getitem", "get"}
    => LastOutcome =
         FirstOf(<<last.pre.temp_config,
                   Layer(last.pre.cfg, last.pre.cfg.section),
                   Layer(last.pre.cfg, last.pre.cfg.default_section),
                   Layer(last.pre.default_config, last.pre.default_config.section),
                   Layer(last.pre.default_config, last.pre.default_config.default_section)>>,
                 last.a1,
                 IF last.op = "get" THEN Ret(last.a3) ELSE Raise("KeyError"))

C4_DefaultNeverRaises ==
    (/\ last.op = "call"
     /\ last.pre.init_count > 0
     /\ last.a3
     /\ FirstOf(<<Layer(last.pre.cfg, last.a1),
                  Layer(last.pre.cfg, last.pre.cfg.default_section),
                  Layer(last.pre.default_config, last.a1),
                  Layer(last.pre.default_config, last.pre.default_config.default_section)>>,
                last.a2, Raise("KeyError")) = Raise("KeyError"))
    => LastOutcome = Ret(DefaultArg)

\* The file a load was given: the path it read, whether that is an existing
\* file, and whether configparser could read it.
LoadedPath == IF last.a1 = None THEN last.pre.self.path ELSE last.a1
LoadedIsFile == isfile(last.pre.disk, LoadedPath)
LoadedContent == last.pre.disk[LoadedPath]

\* C5: on an initialised config, load() of a file that exists and defines no
\* section and no key, with load_empty off, leaves the live config with the
\* sections, keys and values it had.
C5_EmptyLoadNoOp ==
    (/\ last.op = "load"
     /\ last.pre.self.init_count > 0
     /\ LoadedIsFile
     /\ LoadedContent = IniFile(EmptyDict)
     /\ ~last.a3)
    => cfg.cfg = last.pre.self.cfg.cfg

\* C6: load() without force_load of a path that is no existing file, or of a
\* file that cannot be parsed, returns without raising and leaves the live
\* config, both section pointers, path and default_path as they were.
C6_FailedLoadNoOp ==
    (/\ last.op = "load"
     /\ ~last.a2
     /\ (~LoadedIsFile \/ LoadedContent.kind = "unparsable"))
    => /\ last.exc = ""
       /\ cfg = last.pre.self.cfg
       /\ path = last.pre.self.path
       /\ default_path = last.pre.self.default_path

\* C6 witness: an unparsable file is loaded without force_load after another
\* file had been loaded and had changed the live config.
C6_Witness ==
    /\ last.op = "load" /\ ~last.a2 /\ last.a1 = "bad.ini"
    /\ path = "good.ini"
    /\ cfg.cfg # default_config.cfg

\* C7: with search_in_default_config enabled, get_section(name) and
\* set_section(name) for a name the live config lacks and the default config
\* has leave the live config with section name holding exactly the keys and
\* values of the default config's; get_section returns that section and
\* set_section makes it the current one.
C7_SectionMaterialised ==
    LET n == to_section(last.a1)
    IN  (/\ last.op \in {"get_section", "set_section"}
         /\ last.pre.search_in_default_config
         /\ n \notin DOMAIN last.pre.cfg.cfg
         /\ n \in DOMAIN last.pre.default_config.cfg)
        => /\ n \in DOMAIN cfg.cfg
           /\ cfg.cfg[n] = default_config.cfg[n]
           /\ last.op = "get_section" => last.val = default_config.cfg[n]
           /\ last.op = "set_section" => cfg.section = n

\* C7 witness: set_section imports a non-empty section the live config lacked.
C7_Witness ==
    /\ last.op = "set_section" /\ last.a1 = "s1"
    /\ last.pre.search_in_default_config
    /\ "s1" \notin DOMAIN last.pre.cfg.cfg
    /\ cfg.section = "s1"
    /\ cfg.cfg["s1"] # EmptyDict

\* C8: the section pointer and the default_section pointer of the live config
\* are each None or the name of a section the live config has.
C8_PointersNameSections ==
    /\ cfg.section \in DOMAIN cfg.cfg \cup {None}
    /\ cfg.default_section \in DOMAIN cfg.cfg \cup {None}

\* The section names a config-level merge selects from the right operand.
SelectedSections ==
    merge_dict_preprocessing(DOMAIN last.pre.cfg, DOMAIN last.a1.cfg, last.a2).keys

\* C9: after ConfigDict.merge(right, how, how_section), every section that how
\* selects and that the left config had before the merge equals the
\* SectionDict merge of the left section with the right one under how_section
\* (how when how_section is None); a selected section the left config lacked
\* equals the right one.
C9_MergeComposes ==
    (last.op = "merge" /\ last.exc = "")
    => \A k \in SelectedSections :
          /\ k \in DOMAIN cfg.cfg
          /\ cfg.cfg[k] =
                IF k \in DOMAIN last.pre.cfg
                THEN SectionDict_merge(last.pre.cfg[k], last.a1.cfg[k],
                                       IF last.a3 = None THEN last.a2 ELSE last.a3).sd
                ELSE last.a1.cfg[k]

\* The keys of other after normalisation whose value has an allowed type, and
\* whether no two keys of other normalise to the same key.
KeptKeys(other) ==
    {to_key(k) : k \in {r \in DOMAIN other : SectionDict_check_allowed_value_type(other[r])}}
DistinctKeys(other) ==
    \A j, k \in DOMAIN other : to_key(j) = to_key(k) => j = k
ValueOf(other, key) == other[CHOOSE k \in DOMAIN other : to_key(k) = key]

C11_AppendNeverOverwrites ==
    (last.op = "merge_section" /\ last.a3 = "append")
    => LET before == last.pre.cfg[last.a1]
           after == cfg.cfg[last.a1]
       IN  /\ \A k \in DOMAIN before : k \in DOMAIN after /\ after[k] = before[k]
           /\ \A k \in DOMAIN after \ DOMAIN before :
                 \E r \in DOMAIN last.a2 : to_key(r) = k /\ after[k] = last.a2[r]

\* C12: merging under how='outer' is idempotent: a SectionDict merged twice
\* with the same mapping equals the section merged once, and a ConfigDict
\* merged twice with the same two-level mapping has the sections, keys, values
\* and pointers it had after the first merge.
C12_OuterIdempotent ==
    /\ (last.op = "merge_section_again" /\ last.a3 = "outer")
       => last.exc = "" /\ cfg = last.pre
    /\ (last.op = "merge_again" /\ last.a2 = "outer" /\ last.a3 = None)
       => last.exc = "" /\ cfg = last.pre

\* C12 witness: a second 'outer' merge of a config after a first one that
\* replaced a value of the left config and added a section, next to a
\* section only the left config had.
C12_Witness ==
    /\ last.op = "merge_again" /\ last.a2 = "outer" /\ last.a3 = None
    /\ {"default", "s1", "x"} \subseteq DOMAIN cfg.cfg
    /\ cfg.cfg["default"] = [k \in {"a", "b"} |-> IF k = "a" THEN "i5" ELSE "i2"]
    /\ cfg.cfg["x"] = [k \in {"b"} |-> "i6"]

\* C13: every value stored in a section has a type of the allow-list or is
\* None: no value of another type (a set, a dict) is ever stored.
C13_AllowedValues ==
    \A n \in DOMAIN cfg.cfg : \A k \in DOMAIN cfg.cfg[n] :
        SectionDict_check_allowed_value_type(cfg.cfg[n][k])

\* Section s of cd stores the key that key normalises to.
Stored(cd, s, key) == s \in DOMAIN cd.cfg /\ to_key(key) \in DOMAIN cd.cfg[s]

\* C14: keys are case-insensitive on every read path: for a key stored in a
\* section and a variant that normalises to it, section[variant],
\* config_dict[variant] and config[variant] (the section being the current
\* one) and config(section, variant) return the value stored under the key.
C14_CaseInsensitiveReads ==
    /\ (last.op \in {"section_getitem", "call"} /\ Stored(last.pre.cfg, last.a1, last.a2))
       => LastOutcome = Ret(last.pre.cfg.cfg[last.a1][to_key(last.a2)])
    /\ (/\ last.op \in {"config_dict_getitem", "getitem"}
        /\ Stored(last.pre.cfg, last.pre.cfg.section, last.a1))
       => LastOutcome = Ret(last.pre.cfg.cfg[last.pre.cfg.section][to_key(last.a1)])

\* C15: with search_in_default_config disabled the default config is never
\* used: CONFIG[key] raises KeyError for a key that temp_config and the live
\* config do not hold, CONFIG(section, key, default) returns the default for
\* a key the live config holds neither in the section nor in its default
\* section, and no lookup changes the live config.
C15_SearchPolicyGates ==
    /\ (/\ last.op = "getitem"
        /\ ~last.pre.search_in_default_config
        /\ last.a1 \notin DOMAIN last.pre.temp_config
        /\ ConfigDict_getitem(last.pre.cfg, last.a1).exc # "")
       => LastOutcome = Raise("KeyError")
    /\ (/\ last.op = "call"
        /\ ~last.pre.search_in_default_config
        /\ last.a3
        /\ last.a1 \in DOMAIN last.pre.cfg.cfg
        /\ last.a1 \in DOMAIN last.pre.default_config.cfg
        /\ last.pre.cfg.default_section \in DOMAIN last.pre.cfg.cfg
        /\ last.pre.cfg.default_section \in DOMAIN last.pre.default_config.cfg
        /\ last.a2 \notin DOMAIN Layer(last.pre.cfg, last.a1)
        /\ last.a2 \notin DOMAIN Layer(last.pre.cfg, last.pre.cfg.default_section))
       => LastOutcome = Ret(DefaultArg)
    /\ (last.op \in {"getitem", "call", "callkey"} /\ ~last.pre.search_in_default_config)
       => cfg = last.pre.cfg

\* C16: step 3 of CONFIG[item] looks in the section of the default config
\* that has the name of the live config's current section: when the current
\* section S exists in both configs and the live config holds the item
\* neither in S nor in its default section, CONFIG[item] returns
\* default_config[S][item].
C16_StepThreeSection ==
    LET S == last.pre.cfg.section
        key == to_key(last.a1)
    IN  (/\ last.op = "getitem"
         /\ last.a1 \notin DOMAIN last.pre.temp_config
         /\ S \in DOMAIN last.pre.cfg.cfg
         /\ S \in DOMAIN last.pre.default_config.cfg
         /\ last.pre.cfg.default_section \in DOMAIN last.pre.cfg.cfg \cup {None}
         /\ key \notin DOMAIN Layer(last.pre.cfg, S)
         /\ key \notin DOMAIN Layer(last.pre.cfg, last.pre.cfg.default_section)
         /\ key \in DOMAIN last.pre.default_config.cfg[S])
        => LastOutcome = Ret(last.pre.default_config.cfg[S][key])

\* C17: init(default_config, path) without merge_default_how, whose automatic
\* load reads a non-empty file, keeps existing and new keys: the live config
\* has every section and key of the default config, every section and key of
\* the file, and the file's value for each key the file defines.
C17_InitLoadKeepsBoth ==
    (/\ last.op = "init"
     /\ last.exc = ""
     /\ last.a1 # None
     /\ isfile(last.pre.disk, last.a1)
     /\ last.pre.disk[last.a1].kind = "ini"
     /\ last.pre.disk[last.a1].data # EmptyDict)
    => /\ \A n \in DOMAIN last.a2 :
            /\ n \in DOMAIN cfg.cfg
            /\ \A k \in DOMAIN last.a2[n] : k \in DOMAIN Layer(cfg, n)
       /\ \A n \in DOMAIN last.pre.disk[last.a1].data :
            /\ n \in DOMAIN cfg.cfg
            /\ \A k \in DOMAIN last.pre.disk[last.a1].data[n] :
                 /\ k \in DOMAIN Layer(cfg, n)
                 /\ Layer(cfg, n)[k] = last.pre.disk[last.a1].data[n][k]

\* The init() recorded in last has the arguments of the init() before it:
\* the same default config, path and section.
SameInitArguments ==
    /\ last.pre.self.init_count > 0
    /\ ConfigDict_init(last.a2).cfg = last.pre.self.default_config.cfg
    /\ last.a1 = last.pre.self.default_path
    /\ last.pre.self.default_config.section = (IF last.a3 = None THEN "default" ELSE last.a3)

\* The object directly after a first init() with the arguments recorded in
\* last, on the disk of that moment.
AfterFirstInit ==
    Config_init(Config_new, last.pre.disk, last.a2, last.a1, TRUE, "default", last.a3, FALSE,
                FALSE, FALSE, TRUE, Init_merge_default_how, None, None).self

\* C19: init() called again with the same arguments, after any operations in
\* between, leaves the live config, the default config, the section pointers,
\* the paths and temp_config as they were directly after the first init(),
\* and init_count one higher than before the call.
C19_InitResets ==
    (last.op = "init" /\ last.exc = "" /\ SameInitArguments)
    => /\ cfg = AfterFirstInit.cfg
       /\ default_config = AfterFirstInit.default_config
       /\ path = AfterFirstInit.path
       /\ default_path = AfterFirstInit.default_path
       /\ temp_config = AfterFirstInit.temp_config
       /\ init_count = last.pre.self.init_count + 1

\* The operation recorded in last went through reload_default(how='right'):
\* it was called directly, or load() with force_load set found no file or a
\* file it could not decode.
ReloadedDefault ==
    \/ last.op = "reload_default"
    \/ /\ last.op = "load"
       /\ last.a2
       /\ (~LoadedIsFile \/ LoadedContent.kind = "unparsable")

\* C18: reload_default(how='right'), called directly with write off or on or
\* reached through a forced load() of a missing or undecodable file, leaves
\* path equal to default_path and the live config with exactly the sections,
\* keys and values of the default config.
C18_ReloadDefaultResets ==
    (ReloadedDefault /\ last.exc = "")
    => /\ path = default_path
       /\ cfg.cfg = default_config.cfg

\* C20: once default_path holds a path, no operation changes it: not init()
\* with another path, load(path), save_config(path), reload_default, edit or
\* an assignment to default_path.
C20_DefaultPathFixed ==
    (/\ last.op \in {"init", "load", "save_config", "reload_default", "default_path", "edit"}
     /\ last.pre.self.default_path # None)
    => default_path = last.pre.self.default_path

\* C21: a merge with an unrecognised join mode, through SectionDict.merge,
\* Config.merge (ConfigDict.merge) or load(merge_how=...), fails with
\* ValueError and leaves the left-hand configuration with the sections, keys
\* and values it had before the call.
C21_UnknownModeValueError ==
    (last.op \in {"merge", "merge_section", "load"} /\ BadHow \in {last.a2, last.a3})
    => /\ last.exc = "ValueError"
       /\ cfg.cfg = last.pre.cfg

\* C22: encoding then decoding is the identity on typed values: for every
\* key k and every value v of a type a section accepts, or None,
\* convert_dict_from_str(convert_dict_to_str({k: v})) is {k: v}, v with its
\* original type.
C22_RoundTripIdentity ==
    last.op = "round_trip" => (last.exc = "" /\ last.val = last.a1)

\* The name of the i-th key of a dictionary of strings once its flags are
\* off, the value its flags make of the i-th string, and the pairs of the
\* dictionary that come before the i-th.
BareKey(dico, i) == parse_key(dico[i].k).key
DecodedValue(dico, i) == multiple_item_conversion(dico[i].v, dico[i].k.flags, "ignore").val
Collides(dico, i) == \E j \in 1..i - 1 : BareKey(dico, j) = BareKey(dico, i)
ValueUnder(dico, key) == dico[CHOOSE i \in 1..Len(dico) : dico[i].k = key].v

GivenTo(item, flags, i) ==
    IF i = 1 THEN item
    ELSE process_multiple_item_conversion(item, SubSeq(flags, 1, i - 1), "ignore").val
FlagRaises(item, flags, i) ==
    GivenTo(item, flags, i) # NoneValue /\ ~FILE_TO_KEY(flags[i], GivenTo(item, flags, i)).ok

\* The value convert_dict_from_str stored under the key 'a'.
StoredUnderA == ValueUnder(last.val, Key(<<>>, "a", <<>>))

C25_Singleton ==
    last.op = "Config"
    => /\ last.val.obj = CONFIG
       /\ last.val.obj = last.a2
       /\ last.val.self = last.pre
       /\ Self = last.pre
       /\ instances = [c \in {"Config"} |-> CONFIG]

\* Config('x') after init() and an item write: the object returned holds the
\* value written through CONFIG.
C25_Witness ==
    /\ last.op = "Config"
    /\ last.a1
    /\ init_count >= 1
    /\ \E n \in DOMAIN last.val.self.cfg.cfg :
            /\ "a" \in DOMAIN last.val.self.cfg.cfg[n]
            /\ last.val.self.cfg.cfg[n]["a"] = WrittenValue

\* C26: a name that is no section of the ConfigDict, assigned through the
\* section setter, is rejected: the section pointer keeps its value and no
\* section is created; assigned through the default_section setter, it makes
\* exactly one new empty section of that name, default_section points at it
\* and every other section is unchanged.
C26_PointerSetters ==
    /\ (last.op = "section_attr" /\ last.a1 \notin DOMAIN last.pre.cfg)
        => cfg = last.pre
    /\ (last.op = "default_section_attr" /\ last.a1 \notin DOMAIN last.pre.cfg)
        => /\ DOMAIN cfg.cfg = DOMAIN last.pre.cfg \cup {last.a1}
           /\ cfg.cfg[last.a1] = EmptyDict
           /\ \A n \in DOMAIN last.pre.cfg : cfg.cfg[n] = last.pre.cfg[n]
           /\ cfg.default_section = last.a1
           /\ cfg.section = last.pre.section

\* The default_section setter has created the section 'x' and pointed at it,
\* and the section setter has then refused the missing name 'y'.
C26_Witness ==
    /\ last.op = "section_attr"
    /\ last.a1 = "y"
    /\ "y" \notin DOMAIN last.pre.cfg
    /\ DOMAIN cfg.cfg = {"default", "s1", "x"}
    /\ cfg.default_section = "x"
    /\ cfg.cfg["x"] = EmptyDict
    /\ cfg.section # "y"

\* C27: read-your-writes: in every state reached after init() through the
\* public operations, after config[key] = value, with a value of an allowed
\* type and a key that temp_config does not override, the config[key] that
\* follows immediately returns value.
C27_ReadYourWrites ==
    (/\ last.op = "read_after_write"
     /\ init_count >= 1
     /\ last.a1 \notin DOMAIN temp_config)
    => /\ last.a3 = ""
       /\ last.exc = ""
       /\ last.val = last.a2

\* The operation recorded in last brought the section it names from the
\* default config into the live config, which did not have it.
ImportedSection ==
    /\ last.op \in {"get_section", "set_section", "call"}
    /\ to_section(last.a1) \notin DOMAIN last.pre.cfg.cfg
    /\ to_section(last.a1) \in DOMAIN default_config.cfg
    /\ to_section(last.a1) \in DOMAIN cfg.cfg

\* C28: when get_section(name), set_section(name) or the call-style lookup
\* config(name, key) brings the section name from the default config into
\* the live config, every other section of the live config is unchanged and
\* no section other than name is added.
C28_ImportOnlyNamed ==
    ImportedSection
    => /\ DOMAIN cfg.cfg = DOMAIN last.pre.cfg.cfg \cup {to_section(last.a1)}
       /\ \A n \in DOMAIN last.pre.cfg.cfg : cfg.cfg[n] = last.pre.cfg.cfg[n]

\* C30: the operations on a key never change the set of sections of the live
\* config: config[key], config[key] = value and config.setdefault(key,
\* default) add no section and remove none, and every entry of the section
\* map remains a SectionDict; setdefault returns the existing value when the
\* key is already resolvable and otherwise stores default under key and
\* returns it.
C30_KeyOperationsKeepSections ==
    (last.op \in {"read", "write", "setdefault"} /\ init_count >= 1)
    => /\ DOMAIN cfg.cfg = DOMAIN last.pre.cfg
       /\ \A n \in DOMAIN cfg.cfg : IsSectionDict(cfg.cfg[n])
       /\ last.op = "setdefault"
            => /\ last.exc = ""
               /\ last.val = (IF ConfigDict_getitem(last.pre, last.a1).exc = ""
                              THEN ConfigDict_getitem(last.pre, last.a1).val
                              ELSE last.a2)
               /\ ConfigDict_getitem(cfg, last.a1) = Ret(last.val)

\* C29: the default config is never modified by the operations on the live
\* config: after init(), no lookup (indexing, call-style, get), item write,
\* setdefault, get_section, set_section, add_section, merge, update, append,
\* replace, clear, load, reload_default or save_config changes a section, a
\* key, a value or a pointer of default_config.
C29_DefaultConfigUntouched ==
    [][(init_count >= 1 /\ init_count' = init_count) => default_config' = default_config]_vars

\* The live config was written where the default config has a value of its
\* own, which it keeps.
C29_Witness ==
    /\ init_count >= 1
    /\ last.op = "store"
    /\ last.exc = ""
    /\ "default" \in DOMAIN cfg.cfg
    /\ "a" \in DOMAIN cfg.cfg["default"]
    /\ cfg.cfg["default"]["a"] = WrittenValue
    /\ default_config.cfg["default"]["a"] = "i1"

====
